---- MODULE Spec2Model ----
(***************************************************************************)
(* A model of the Anthropic-to-Gemini translation proxy (src/server.py):   *)
(* the model resolver, the request validators, the quota / rate-limit      *)
(* classifier, the non-streaming response translator, the streaming        *)
(* reassembler and the /v1/messages and /v1/messages/count_tokens          *)
(* handlers.                                                               *)
(*                                                                         *)
(* Text is modelled as a sequence of atoms: an atom is a piece of text     *)
(* that no operation of the program cuts.  Concatenation is \o, and the    *)
(* prefix and substring tests of the code are computed on the atoms.       *)
(***************************************************************************)
EXTENDS Integers, Sequences, FiniteSets, TLC

VARIABLES
    config,          \* Config: big_model, small_model, the streaming switches
    endpoint,        \* which handler serves the request
    body,            \* the caller's JSON body
    request,         \* the validated request object (MessagesRequest / TokenCountRequest)
    temp_request,    \* count_tokens: the temporary MessagesRequest
    resolveCalls,    \* the arguments of validate_and_map_model, in call order
    pc,              \* the position of the handler
    litellm_request, \* create_message: the backend request (model, stream)
    input_tokens,    \* create_message: the pre-calculated input tokens
    backend_calls,   \* what the backend was asked and answered, in order
    gen,             \* streaming_with_first_chunk: the generator's state
    first_chunk,     \* create_message: the first chunk of the stream
    response,        \* what the caller is answered
    events,          \* the SSE events handle_streaming_with_recovery has yielded
    ss,              \* handle_streaming_with_recovery: its local state
    arg,             \* the argument of the function under study
    result,          \* its result
    request_stats,   \* the process-wide RequestStats object
    middleware,      \* log_requests: the call of each request, its position and locals
    clock,           \* health_monitor.py: datetime.now(), in seconds
    restarter,       \* the AutoRestarter: restart_times, and the calls of restart_server
    monitor          \* the HealthMonitor: its settings, consecutive_failures, its last cycle

vars ==
    <<config, endpoint, body, request, temp_request, resolveCalls, pc, litellm_request,
      input_tokens, backend_calls, gen, first_chunk, response, events, ss, arg, result,
      request_stats, middleware, clock, restarter, monitor>>

None == "None"

\* An absent (None) or empty model string: both are false for `or`.
NoModel == <<>>

\* ------------------------------------------------------------------------
\* Bounds
\* ------------------------------------------------------------------------

\* The longest caller-supplied model string, in atoms, of the resolver runs.
MaxModelAtoms == 3

\* ------------------------------------------------------------------------
\* Model names
\* ------------------------------------------------------------------------

\* The provider prefixes _clean_model_name knows.
ProviderPrefixes == {"gemini/", "anthropic/", "openai/"}

\* The atoms caller-supplied model strings are built from.
ModelAtoms ==
    ProviderPrefixes \cup
    {"claude-3-", "haiku", "HAIKU", "Sonnet", "opus",
     "gemini-pro", "gemini-2.0-flash-exp", "my-model"}

\* model.lower() contains the word: some atom does (no word straddles two atoms).
HaikuAtoms == {"haiku", "HAIKU", "Haiku"}
SonnetAtoms == {"sonnet", "Sonnet", "SONNET"}
OpusAtoms == {"opus", "Opus", "OPUS"}

ContainsAtomOf(s, atoms) == \E i \in 1..Len(s) : s[i] \in atoms

\* str.startswith("gemini") for the atoms a configured model id may start with.
StartsWithGeminiAtoms ==
    {"gemini/", "gemini-pro", "gemini-2.0-flash-exp", "gemini-1.5-flash-latest",
     "gemini-1.5-pro-latest", "gemini-1.5-pro-preview-0514",
     "gemini-1.5-flash-preview-0514", "gemini-2.5-pro-preview-05-06",
     "gemini-2.5-flash-preview-04-17", "gemini-exp-1206"}

StartsWith(s, atom) == Len(s) > 0 /\ s[1] = atom

StartsWithGemini(s) == Len(s) > 0 /\ s[1] \in StartsWithGeminiAtoms

base_gemini_models ==
    { <<"gemini-1.5-pro-latest">>, <<"gemini-1.5-pro-preview-0514">>,
      <<"gemini-1.5-flash-latest">>, <<"gemini-1.5-flash-preview-0514">>,
      <<"gemini-pro">>, <<"gemini-2.5-pro-preview-05-06">>,
      <<"gemini-2.5-flash-preview-04-17">>, <<"gemini-2.0-flash-exp">>,
      <<"gemini-exp-1206">> }

\* ModelManager.__init__ and _add_env_models: the known backend models.
gemini_models(cfg) ==
    base_gemini_models \cup
    { m \in {cfg.big_model, cfg.small_model} : StartsWithGemini(m) }

_clean_model_name(model) ==
    IF StartsWith(model, "gemini/") THEN Tail(model)
    ELSE IF StartsWith(model, "anthropic/") THEN Tail(model)
    ELSE IF StartsWith(model, "openai/") THEN Tail(model)
    ELSE model

\* A resolver that tests the aliases in the other order.
MapModelAliasSonnetFirst(cfg, clean_model) ==
    IF ContainsAtomOf(clean_model, SonnetAtoms) \/ ContainsAtomOf(clean_model, OpusAtoms)
    THEN cfg.big_model
    ELSE IF ContainsAtomOf(clean_model, HaikuAtoms) THEN cfg.small_model
    ELSE clean_model

_map_model_alias(cfg, clean_model) ==
    IF ContainsAtomOf(clean_model, HaikuAtoms) THEN cfg.small_model
    ELSE IF ContainsAtomOf(clean_model, SonnetAtoms) \/ ContainsAtomOf(clean_model, OpusAtoms)
    THEN cfg.big_model
    ELSE clean_model

\* validate_and_map_model: <<resolved model id, was_mapped>>.
validate_and_map_model(cfg, original_model) ==
    LET clean_model == _clean_model_name(original_model)
        mapped_model == _map_model_alias(cfg, clean_model)
    IN  IF mapped_model # clean_model THEN << <<"gemini/">> \o mapped_model, TRUE >>
        ELSE IF clean_model \in gemini_models(cfg) THEN << <<"gemini/">> \o clean_model, TRUE >>
        ELSE IF ~StartsWith(original_model, "gemini/")
        THEN << <<"gemini/">> \o original_model, FALSE >>
        ELSE << original_model, FALSE >>

\* ------------------------------------------------------------------------
\* Pydantic validation of the request bodies
\* ------------------------------------------------------------------------

\* pydantic validates the fields in declaration order into one dict, which is
\* also the info.data the validators see; a field the body does not carry gets
\* its default.  original_model is declared after model, so the value the model
\* validator stored under info.data['original_model'] is overwritten by the
\* field's own value: the body's, or the default None.
ValidateFields(validated_model, data_after_model_validator, b) ==
    [data_after_model_validator EXCEPT
        !.model = validated_model,
        !.stream = b.stream,
        !.original_model = b.original_model]

\* MessagesRequest(**body): validate_model_field, then the remaining fields.
MessagesRequest(cfg, b) ==
    LET original_model == b.model
        mapped_model == validate_and_map_model(cfg, b.model)[1]
        info_data == [model |-> NoModel, stream |-> FALSE,
                      original_model |-> original_model]
    IN  ValidateFields(mapped_model, info_data, b)

\* TokenCountRequest(**body): validate_model_token_count, then the remaining
\* fields (TokenCountRequest has no stream field).
TokenCountRequest(cfg, b) ==
    LET mapped_model == validate_and_map_model(cfg, b.model)[1]
        info_data == [model |-> NoModel, stream |-> FALSE, original_model |-> b.model]
    IN  ValidateFields(mapped_model, info_data, [b EXCEPT !.stream = FALSE])

NoRequest == [model |-> NoModel, stream |-> FALSE, original_model |-> NoModel]

\* ------------------------------------------------------------------------
\* Text of errors
\* ------------------------------------------------------------------------

\* The substrings the program looks for in a lower-cased text.
LowerNeedles ==
    {"rate limit", "quota", "free_tier", "limit", "exceed", "connection", "timeout",
     "error parsing chunk", "expecting property name", "function_declarations",
     "format", "only 'enum' and 'date-time' are supported", "api key",
     "authentication", "unauthorized", "parsing", "json", "malformed", "safety",
     "content", "filter", "token"}

\* The substrings the program looks for in a text as it is.
CaseNeedles ==
    {"RateLimitError", "429", "RESOURCE_EXHAUSTED", "Error parsing chunk",
     "Expecting property name enclosed in double quotes"}

\* word.lower() contains these needles.
LowerNeedlesOf(word) ==
    CASE word = "rate limit" -> {"rate limit", "limit"}
      [] word = "Rate limit exceeded. Please slow down your requests." ->
            {"rate limit", "limit", "exceed"}
      [] word = "Rate limited. Too many requests." -> {"rate limit", "limit"}
      [] word = "quota" -> {"quota"}
      [] word = "Quota exceeded." -> {"quota", "exceed"}
      [] word = "You exceeded your current quota, please check your plan and billing details." ->
            {"quota", "exceed"}
      [] word = "Quota exhausted. Please check your quota limits." -> {"quota", "limit"}
      [] word = "free_tier" -> {"free_tier"}
      [] word = "litellm.RateLimitError: " -> {"limit"}
      [] word = "Daily limit reached." -> {"limit"}
      [] word = "Connection reset by peer" -> {"connection"}
      [] word = "Request timeout" -> {"timeout"}
      [] word = "Error parsing chunk: Expecting property name enclosed in double quotes" ->
            {"error parsing chunk", "expecting property name", "parsing"}
      [] word = "Invalid API key" -> {"api key"}
      [] word = "Quota exhausted. You've hit your free tier limits. Consider upgrading your Google AI Studio plan or try again later when your quota resets." ->
            {"quota", "limit"}
      [] word = "Rate limited. Too many requests - try again in a moment. (Google suggests waiting " ->
            {"rate limit", "limit"}
      [] word = "Response parsing error. This is often a temporary Gemini API issue - please retry your request." ->
            {"parsing"}
      [] word = "Connection or timeout error. Please check your internet connection and try again." ->
            {"connection", "timeout"}
      [] word = "Gemini streaming parsing error (malformed JSON chunk). This is a known intermittent Gemini API issue. Please try again or disable streaming by setting stream=false." ->
            {"parsing", "malformed", "json"}
      [] word = "API key error. Please check that your GEMINI_API_KEY is valid and has the necessary permissions." ->
            {"api key"}
      [] OTHER -> {}

\* word contains these needles.
CaseNeedlesOf(word) ==
    CASE word = "litellm.RateLimitError: " -> {"RateLimitError"}
      [] word = "quota" -> {"quota"}
      [] word = "free_tier" -> {"free_tier"}
      [] word = "You exceeded your current quota, please check your plan and billing details." ->
            {"quota"}
      [] word = "Quota exhausted. Please check your quota limits." -> {"quota"}
      [] word = "429" -> {"429"}
      [] word = "RESOURCE_EXHAUSTED" -> {"RESOURCE_EXHAUSTED"}
      [] word = "Error parsing chunk: Expecting property name enclosed in double quotes" ->
            {"Error parsing chunk", "Expecting property name enclosed in double quotes"}
      [] OTHER -> {}

\* The quotaMetric values of the backend, lower-cased as str.lower() does.
LowerMetric(metric) ==
    CASE metric = "generativelanguage.googleapis.com/Generate_Requests_Per_Day" ->
            "generativelanguage.googleapis.com/generate_requests_per_day"
      [] OTHER -> metric

\* The indicators of handle_quota_rate_limit_error a lower-cased metric contains.
IndicatorsOf(lower_metric) ==
    CASE lower_metric = "generativelanguage.googleapis.com/generate_content_free_tier_requests" ->
            {"generate_content_free_tier_requests"}
      [] lower_metric = "generativelanguage.googleapis.com/generate_requests_per_day" ->
            {"requests_per_day"}
      [] lower_metric = "generativelanguage.googleapis.com/input_tokens_per_day" ->
            {"tokens_per_day"}
      [] lower_metric = "characters_per_day" -> {"characters_per_day"}
      [] lower_metric = "generativelanguage.googleapis.com/generate_content_requests_per_minute" ->
            {"requests_per_minute"}
      [] lower_metric = "generativelanguage.googleapis.com/input_tokens_per_minute" ->
            {"tokens_per_minute"}
      [] lower_metric = "characters_per_minute" -> {"characters_per_minute"}
      [] lower_metric = "requests_per_day_per_requests_per_minute" ->
            {"requests_per_day", "requests_per_minute"}
      [] OTHER -> {}

\* Whether a lower-cased metric contains "free_tier".
MetricHasFreeTier(lower_metric) ==
    lower_metric \in
        {"generativelanguage.googleapis.com/generate_content_free_tier_requests",
         "generativelanguage.googleapis.com/free_tier_input_token_count"}

\* An error text is the words before the payload and the payload: the JSON error
\* object of the backend, as plain JSON ("json"), inside a bytes literal b'{...}'
\* ("bytes") or inside one whose line breaks are written \n ("bytes_nl").
NoPayload ==
    [form |-> "none", code |-> 0, status |-> "", message |-> <<>>,
     has_quota_failure |-> FALSE, quota_metric |-> "",
     has_retry_info |-> FALSE, retry_delay |-> <<>>]

WordsContain(words, needle) ==
    \E i \in 1..Len(words) :
        needle \in (LowerNeedlesOf(words[i]) \cup CaseNeedlesOf(words[i]))

\* "429" in a retryDelay value: the value is a string of characters.
HasRun429(str) ==
    \E i \in 1..(Len(str) - 2) : SubSeq(str, i, i + 2) = <<"4", "2", "9">>

\* needle in the JSON text of the payload (its keys, its values).
PayloadContains(p, needle) ==
    /\ p.form # "none"
    /\ \/ WordsContain(p.message, needle)
       \/ needle = "quota" /\ p.has_quota_failure
       \/ needle = "free_tier" /\ p.has_quota_failure
                               /\ MetricHasFreeTier(LowerMetric(p.quota_metric))
       \/ needle = "429" /\ (p.code = 429 \/ (p.has_retry_info /\ HasRun429(p.retry_delay)))
       \/ needle = "RESOURCE_EXHAUSTED" /\ p.status = "RESOURCE_EXHAUSTED"

\* needle in the text as it is written, for the needles quota and free_tier:
\* the payload spells its keys quotaMetric and QuotaFailure.
TextContainsCase(text, needle) ==
    \/ \E i \in 1..Len(text.pre) : needle \in CaseNeedlesOf(text.pre[i])
    \/ /\ text.payload.form # "none"
       /\ \/ \E i \in 1..Len(text.payload.message) :
                needle \in CaseNeedlesOf(text.payload.message[i])
          \/ needle = "quota" /\ text.payload.has_quota_failure
          \/ /\ needle = "free_tier" /\ text.payload.has_quota_failure
             /\ MetricHasFreeTier(text.payload.quota_metric)

\* needle in text (a lower-case needle: in text.lower()).
TextContains(text, needle) ==
    WordsContain(text.pre, needle) \/ PayloadContains(text.payload, needle)

\* ------------------------------------------------------------------------
\* Error classifier
\* ------------------------------------------------------------------------

\* extract_retry_delay's default.
DefaultRetryDelay == 60

\* json.loads of the text the greedy pattern {.*} finds: the payload parses
\* when it is written as JSON; the literal \n of "bytes_nl" is no JSON.
GreedyJsonParses(p) == p.form \in {"json", "bytes"}

\* parse_gemini_error_details: the b'{...' pattern first (the escapes undone),
\* the greedy {...} pattern else; the fallback descriptor when nothing parses.
parse_gemini_error_details(text) ==
    LET p == text.payload
    IN  IF p.form \in {"bytes", "bytes_nl", "json"}
        THEN [parsing_failed |-> FALSE,
              has_message |-> TRUE,
              message |-> p.message,
              quota_metric |-> IF p.has_quota_failure THEN p.quota_metric ELSE "",
              has_retry_delay |-> p.has_retry_info,
              retry_delay |-> p.retry_delay]
        ELSE [parsing_failed |-> TRUE,
              has_message |-> FALSE,
              message |-> <<>>,
              quota_metric |-> "",
              has_retry_delay |-> FALSE,
              retry_delay |-> <<>>]

\* The value of a run of decimal digits.
DigitAtoms == {"0", "1", "2", "3", "4", "5", "6", "7", "8", "9"}

DigitValue(d) ==
    CASE d = "0" -> 0 [] d = "1" -> 1 [] d = "2" -> 2 [] d = "3" -> 3 [] d = "4" -> 4
      [] d = "5" -> 5 [] d = "6" -> 6 [] d = "7" -> 7 [] d = "8" -> 8 [] d = "9" -> 9

\* int(m.group(1)) for the pattern (\d+) matched at the start of str: the
\* longest run of digits there, acc so far.
RECURSIVE IntOfDigitRun(_, _)
IntOfDigitRun(str, acc) ==
    IF str # <<>> /\ Head(str) \in DigitAtoms
    THEN IntOfDigitRun(Tail(str), 10 * acc + DigitValue(Head(str)))
    ELSE acc

\* re.search(r'(\d+)', str): the first run of digits anywhere in str.
RECURSIVE SearchDigits(_)
SearchDigits(str) ==
    IF str = <<>> THEN [found |-> FALSE, value |-> 0]
    ELSE IF Head(str) \in DigitAtoms THEN [found |-> TRUE, value |-> IntOfDigitRun(str, 0)]
    ELSE SearchDigits(Tail(str))

\* The pattern retryDelay["']?\s*:\s*["']?(\d+) on the text of the payload: the
\* digits have to stand at the start of the value.
MatchRetryDelayPattern(p) ==
    IF p.has_retry_info /\ p.retry_delay # <<>> /\ Head(p.retry_delay) \in DigitAtoms
    THEN [found |-> TRUE, value |-> IntOfDigitRun(p.retry_delay, 0)]
    ELSE [found |-> FALSE, value |-> 0]

\* extract_retry_delay without its fallback pattern.
ExtractRetryDelayJsonOnly(text) ==
    LET p == text.payload
        in_json == SearchDigits(p.retry_delay)
    IN  IF p.form # "none" /\ GreedyJsonParses(p) /\ p.has_retry_info /\ in_json.found
        THEN in_json.value
        ELSE DefaultRetryDelay

\* extract_retry_delay: the RetryInfo entry of the parsed JSON (a missing
\* retryDelay reads as '60s'), else the retryDelay pattern in the text, else 60.
extract_retry_delay(text) ==
    LET p == text.payload
        in_json == SearchDigits(IF p.retry_delay = <<>> THEN <<"6", "0", "s">>
                                ELSE p.retry_delay)
        in_text == MatchRetryDelayPattern(p)
    IN  IF p.form # "none" /\ GreedyJsonParses(p) /\ p.has_retry_info /\ in_json.found
        THEN in_json.value
        ELSE IF p.form # "none" /\ in_text.found THEN in_text.value
        ELSE DefaultRetryDelay

exhaustion_indicators ==
    {"requests_per_day", "generate_content_free_tier_requests",
     "tokens_per_day", "characters_per_day"}

rate_limit_indicators ==
    {"requests_per_minute", "tokens_per_minute", "characters_per_minute"}

HTTPException(status_code, detail) == [status_code |-> status_code, detail |-> detail]

\* A classifier that tests the rate-limit indicators before the exhaustion ones.
IsQuotaExhaustedRateFirst(text, quota_metric) ==
    IF IndicatorsOf(quota_metric) \cap rate_limit_indicators # {} THEN FALSE
    ELSE IF IndicatorsOf(quota_metric) \cap exhaustion_indicators # {} THEN TRUE
    ELSE TextContains(text, "quota") \/ TextContains(text, "free_tier")

\* is_quota_exhausted of handle_quota_rate_limit_error.
is_quota_exhausted(text, quota_metric) ==
    IF IndicatorsOf(quota_metric) \cap exhaustion_indicators # {} THEN TRUE
    ELSE IF IndicatorsOf(quota_metric) \cap rate_limit_indicators # {} THEN FALSE
    ELSE TextContains(text, "quota") \/ TextContains(text, "free_tier")

\* handle_quota_rate_limit_error(error, request, config), error_str = text.
handle_quota_rate_limit_error(text) ==
    LET quota_details == parse_gemini_error_details(text)
        retry_delay == extract_retry_delay(text)
        quota_metric == LowerMetric(quota_details.quota_metric)
    IN  IF is_quota_exhausted(text, quota_metric)
        THEN HTTPException(400,
                IF quota_details.has_message THEN quota_details.message
                ELSE <<"Quota exhausted. Please check your quota limits.">>)
        ELSE HTTPException(500,
                (IF quota_details.has_message THEN quota_details.message
                 ELSE <<"Rate limited. Too many requests.">>)
                \o <<" (Google suggests waiting ", ToString(retry_delay),
                     "s, but Claude Code will retry faster)">>)

\* str(e) of a starlette HTTPException: "<status_code>: <detail>".
StrHTTPException(h) ==
    [pre |-> <<ToString(h.status_code), ": ">> \o h.detail, payload |-> NoPayload]

\* The test create_message and the stream loop make on an error: its text or
\* its type name carries a rate-limit / quota signature.
IsRateLimitSignature(e) ==
    \/ TextContains(e.text, "RateLimitError")
    \/ e.cls = "RateLimitError"
    \/ TextContains(e.text, "rate limit")
    \/ TextContains(e.text, "quota")
    \/ TextContains(e.text, "429")
    \/ TextContains(e.text, "RESOURCE_EXHAUSTED")

\* classify_gemini_error: the guidance text for an error text.  The words of
\* the model carry none of the tool-schema, safety and token-limit phrases, so
\* those branches are never taken.
classify_gemini_error(text) ==
    IF TextContains(text, "error parsing chunk") /\ TextContains(text, "expecting property name")
    THEN <<"Gemini streaming parsing error (malformed JSON chunk). This is a known intermittent Gemini API issue. Please try again or disable streaming by setting stream=false.">>
    ELSE IF TextContains(text, "rate limit") \/ TextContains(text, "quota")
    THEN IF TextContains(text, "quota") \/ TextContains(text, "free_tier")
         THEN <<"Quota exhausted. You've hit your free tier limits. Consider upgrading your Google AI Studio plan or try again later when your quota resets.">>
         ELSE <<"Rate limited. Too many requests - try again in a moment. (Google suggests waiting ",
                ToString(extract_retry_delay(text)),
                "s, but Claude Code will retry faster)">>
    ELSE IF TextContains(text, "api key") \/ TextContains(text, "authentication")
            \/ TextContains(text, "unauthorized")
    THEN <<"API key error. Please check that your GEMINI_API_KEY is valid and has the necessary permissions.">>
    ELSE IF TextContains(text, "parsing") \/ TextContains(text, "json")
            \/ TextContains(text, "malformed")
    THEN <<"Response parsing error. This is often a temporary Gemini API issue - please retry your request.">>
    ELSE IF TextContains(text, "connection") \/ TextContains(text, "timeout")
    THEN <<"Connection or timeout error. Please check your internet connection and try again.">>
    ELSE text.pre \o (IF text.payload.form = "none" THEN <<>> ELSE <<"{...}">>)

\* ------------------------------------------------------------------------
\* Response translator (non-streaming)
\* ------------------------------------------------------------------------

TextBlock(text) ==
    [type |-> "text", text |-> text, id |-> None, name |-> None, input |-> None]

ToolUseBlock(id, name, input) ==
    [type |-> "tool_use", text |-> None, id |-> id, name |-> name, input |-> input]

SkippedBlock == [type |-> "skipped", text |-> None, id |-> None, name |-> None, input |-> None]

\* tool_calls of a message: kind "none" (None), "missing", "list" or "single"
\* (one tool call that is not in a list), and the tool calls.
NoToolCalls == [kind |-> "none", items |-> <<>>]

\* A backend tool call: style "dict", "attr" (has id and function attributes)
\* or "other"; id "given", None or "missing"; name a string, "" or None;
\* arguments: "object" (JSON text of an object), "array" (JSON text of a
\* non-object), "invalid" (no JSON), None, or "missing".
\* The block of one tool call of convert_litellm_to_anthropic's loop; a tool
\* call that is skipped (no name, an exception) yields SkippedBlock.
ToolCallBlock(tc) ==
    LET unknown_shape == tc.style = "other"
        \* tool_call.get("id", f"tool_{uuid}") / tool_call.id
        tool_id == IF tc.id = "missing" THEN
                       (IF tc.style = "dict" THEN "generated" ELSE "raise")
                   ELSE tc.id
        \* function_data.get("name", "") / tool_call.function.name
        name == IF tc.name = "missing" THEN
                    (IF tc.style = "dict" THEN "" ELSE "raise")
                ELSE tc.name
        \* function_data.get("arguments", "{}") / tool_call.function.arguments
        arguments_str == IF tc.arguments = "missing" THEN
                             (IF tc.style = "dict" THEN "object" ELSE "raise")
                         ELSE tc.arguments
    IN  IF unknown_shape THEN SkippedBlock
        ELSE IF "raise" \in {tool_id, name} THEN SkippedBlock
        ELSE IF arguments_str = "raise" /\ tc.style = "attr" THEN SkippedBlock
        ELSE IF name \in {"", None} THEN SkippedBlock
        \* json.loads(None): TypeError, caught by the loop's except
        ELSE IF arguments_str = None THEN SkippedBlock
        \* ContentBlockToolUse: id must be a str, input a dict
        ELSE IF tool_id = None THEN SkippedBlock
        ELSE IF arguments_str = "array" THEN SkippedBlock
        ELSE IF arguments_str = "invalid"
        THEN ToolUseBlock(tool_id, name, "raw_arguments")
        ELSE ToolUseBlock(tool_id, name, "parsed")

RECURSIVE ToolCallBlocks(_)
ToolCallBlocks(tool_calls) ==
    IF tool_calls = <<>> THEN <<>>
    ELSE LET b == ToolCallBlock(Head(tool_calls))
         IN  (IF b = SkippedBlock THEN <<>> ELSE <<b>>) \o ToolCallBlocks(Tail(tool_calls))

\* A finish-reason mapping that says tool_use whenever there are tool calls.
MapFinishReasonByToolCalls(finish_reason, has_tool_calls) ==
    IF finish_reason = "length" THEN "max_tokens"
    ELSE IF has_tool_calls THEN "tool_use"
    ELSE "end_turn"

\* The finish-reason mapping of convert_litellm_to_anthropic.
MapFinishReason(finish_reason, has_tool_calls) ==
    IF finish_reason = "length" THEN "max_tokens"
    ELSE IF finish_reason = "tool_calls" THEN "tool_use"
    ELSE IF finish_reason = None /\ has_tool_calls THEN "tool_use"
    ELSE "end_turn"

\* What the try block of convert_litellm_to_anthropic extracts from the
\* response: the fields, or raised = TRUE when an extraction raises.
\* A response is attribute-style ("attr": it has a choices attribute, and is
\* read that way when it has a usage attribute too), mapping-style ("dict") or
\* neither ("other").
ExtractResponse(r) ==
    LET defaults == [raised |-> FALSE, content_text |-> "", tool_calls |-> NoToolCalls,
                     finish_reason |-> "stop", response_id |-> "generated",
                     tokens_are_ints |-> TRUE,
                     prompt_tokens |-> 0, completion_tokens |-> 0]
        has_choice == r.n_choices > 0
    IN  IF r.style = "attr" /\ r.usage # "missing" THEN
            \* choices[0].message, choices[0].finish_reason: AttributeError when missing
            IF has_choice /\ (r.message = "missing" \/ r.finish_reason = "missing")
            THEN [defaults EXCEPT !.raised = TRUE]
            ELSE [defaults EXCEPT
                    !.content_text =
                        IF ~has_choice \/ r.message = None \/ r.content \in {None, "missing"}
                        THEN "" ELSE r.content,
                    !.tool_calls =
                        IF ~has_choice \/ r.message = None \/ r.tool_calls.kind = "missing"
                        THEN NoToolCalls ELSE r.tool_calls,
                    !.finish_reason = IF has_choice THEN r.finish_reason ELSE "stop",
                    !.response_id = IF r.id = "missing" THEN "generated" ELSE r.id,
                    !.tokens_are_ints = r.usage # "null_tokens",
                    !.prompt_tokens =
                        IF r.usage \in {None, "no_tokens"} THEN 0 ELSE r.prompt_tokens,
                    !.completion_tokens =
                        IF r.usage \in {None, "no_tokens"} THEN 0 ELSE r.completion_tokens]
        ELSE IF r.style = "dict" THEN
            \* choices[0].get("message", {}).get(...), usage.get(...): None has no get
            IF (has_choice /\ r.message = None) \/ r.usage = None
            THEN [defaults EXCEPT !.raised = TRUE]
            ELSE [defaults EXCEPT
                    !.content_text =
                        IF ~has_choice \/ r.message = "missing" \/ r.content \in {None, "missing"}
                        THEN "" ELSE r.content,
                    !.tool_calls =
                        IF ~has_choice \/ r.message = "missing" \/ r.tool_calls.kind = "missing"
                        THEN NoToolCalls ELSE r.tool_calls,
                    !.finish_reason =
                        IF ~has_choice \/ r.finish_reason = "missing" THEN "stop"
                        ELSE r.finish_reason,
                    !.response_id = IF r.id = "missing" THEN "generated" ELSE r.id,
                    !.tokens_are_ints = r.usage # "null_tokens",
                    !.prompt_tokens =
                        IF r.usage \in {"missing", "no_tokens"} THEN 0 ELSE r.prompt_tokens,
                    !.completion_tokens =
                        IF r.usage \in {"missing", "no_tokens"} THEN 0 ELSE r.completion_tokens]
        ELSE defaults

\* if tool_calls: ... a value that is not a list is wrapped into one.
ToolCallList(tool_calls) ==
    IF tool_calls.kind \in {"none", "missing"} THEN <<>> ELSE tool_calls.items

\* The response of the except branch.
DegradedResponse(original_request) ==
    [id |-> "msg_error_generated",
     model |-> IF original_request.original_model # NoModel
               THEN original_request.original_model ELSE original_request.model,
     content |-> <<TextBlock("Response conversion error")>>,
     stop_reason |-> "error",
     input_tokens |-> 0, output_tokens |-> 0]

\* A translator that returns the blocks as built.
NoSubstituteBlock(content_blocks) == content_blocks

\* "Ensure at least one content block": the substitute when none was built.
EnsureContentBlock(content_blocks) ==
    IF content_blocks = <<>> THEN <<TextBlock("")>> ELSE content_blocks


convert_litellm_to_anthropic(litellm_response, original_request) ==
    LET x == ExtractResponse(litellm_response)
        tool_list == ToolCallList(x.tool_calls)
        content_blocks ==
            (IF x.content_text # "" THEN <<TextBlock(x.content_text)>> ELSE <<>>)
            \o ToolCallBlocks(tool_list)
        \* pydantic: text must be a str, id a str, the token counts ints
        invalid == \/ x.content_text = "not_a_string"
                   \/ x.response_id = None
                   \/ ~x.tokens_are_ints
    IN  IF x.raised \/ invalid THEN DegradedResponse(original_request)
        ELSE [id |-> x.response_id,
              model |-> IF original_request.original_model # NoModel
                        THEN original_request.original_model ELSE original_request.model,
              content |-> EnsureContentBlock(content_blocks),
              stop_reason |-> MapFinishReason(x.finish_reason, tool_list # <<>>),
              input_tokens |-> x.prompt_tokens,
              output_tokens |-> x.completion_tokens]

\* ------------------------------------------------------------------------
\* String fragments of the backend stream
\* ------------------------------------------------------------------------

\* The text of a chunk object up to its text delta, and the two ends of one:
\*   {"choices":[{"delta":{"content":"   ...text...   "}}]}
\*                                       ...text...   "},"finish_reason":"stop"}]}
ChunkHead == "{\"choices\":[{\"delta\":{\"content\":\""
ChunkTail == "\"}}]}"
ChunkTailStop == "\"},\"finish_reason\":\"stop\"}]}"
LongText == "<6000 characters of text>"

\* The atoms string fragments are built from.
FragmentAtoms ==
    {" ", "{", "}", "[", "]", ",", "null", "[DONE]", "Hello", "world", LongText,
     ChunkHead, ChunkTail, ChunkTailStop}

\* len(atom)
AtomLen(a) ==
    CASE a \in {" ", "{", "}", "[", "]", ","} -> 1
      [] a = "null" -> 4
      [] a = "[DONE]" -> 6
      [] a \in {"Hello", "world"} -> 5
      [] a = LongText -> 6000
      [] a = ChunkHead -> 33
      [] a = ChunkTail -> 5
      [] a = ChunkTailStop -> 28

\* The braces of an atom in text order: 1 for '{', -1 for '}'.  The first
\* brace of an atom that opens one is its first character; the last brace of
\* an atom that closes one is its last character.
AtomBraces(a) ==
    CASE a = "{" -> <<1>>
      [] a = "}" -> <<-1>>
      [] a = ChunkHead -> <<1, 1, 1>>
      [] a \in {ChunkTail, ChunkTailStop} -> <<-1, -1, -1>>
      [] OTHER -> <<>>

\* atom.count('['), atom.count(']')
AtomOpenBrackets(a) == IF a \in {"[", "[DONE]", ChunkHead} THEN 1 ELSE 0
AtomCloseBrackets(a) == IF a \in {"]", "[DONE]", ChunkTail, ChunkTailStop} THEN 1 ELSE 0

\* The atoms that may stand inside a JSON string: they hold no quote.
StringSafeAtoms == FragmentAtoms \ {ChunkHead, ChunkTail, ChunkTailStop}

RECURSIVE StrLen(_)
StrLen(str) == IF str = <<>> THEN 0 ELSE AtomLen(Head(str)) + StrLen(Tail(str))

RECURSIVE CountBraces(_, _)
CountBraces(str, sign) ==
    IF str = <<>> THEN 0
    ELSE Len(SelectSeq(AtomBraces(Head(str)), LAMBDA b : b = sign))
         + CountBraces(Tail(str), sign)

RECURSIVE CountOpenBrackets(_)
CountOpenBrackets(str) ==
    IF str = <<>> THEN 0 ELSE AtomOpenBrackets(Head(str)) + CountOpenBrackets(Tail(str))

RECURSIVE CountCloseBrackets(_)
CountCloseBrackets(str) ==
    IF str = <<>> THEN 0 ELSE AtomCloseBrackets(Head(str)) + CountCloseBrackets(Tail(str))

\* str.strip(): whitespace is taken off both ends
WhitespaceAtoms == {" ", "\n"}

RECURSIVE LStrip(_)
LStrip(str) ==
    IF str # <<>> /\ Head(str) \in WhitespaceAtoms THEN LStrip(Tail(str)) ELSE str

RECURSIVE RStrip(_)
RStrip(str) ==
    IF str # <<>> /\ str[Len(str)] \in WhitespaceAtoms
      THEN RStrip(SubSeq(str, 1, Len(str) - 1))
      ELSE str

Strip(str) == RStrip(LStrip(str))

StartsWithBrace(str) == str # <<>> /\ str[1] \in {"{", ChunkHead}
EndsWithBrace(str) == str # <<>> /\ str[Len(str)] \in {"}", ChunkTail, ChunkTailStop}
StartsWithBracket(str) == str # <<>> /\ str[1] \in {"[", "[DONE]"}
EndsWithBracket(str) == str # <<>> /\ str[Len(str)] \in {"]", "[DONE]"}

\* The entries of malformed_singles and malformed_patterns the atoms can spell.
malformed_singles == { <<"{">>, <<"}">>, <<"[">>, <<"]">>, <<",">> }

malformed_patterns ==
    { <<"[", "{">>, <<"}", "]">>, <<"{", "}">>, <<"[", "]">>, <<"null">>, <<>>,
      <<"{", ",">>, <<",", "}">>, <<"[", ",">>, <<",", "]">> }

is_malformed_chunk(chunk_str) ==
    LET chunk_stripped == Strip(chunk_str)
    IN  \/ chunk_str = <<>>
        \/ chunk_stripped = <<>>
        \/ chunk_stripped \in malformed_singles
        \/ chunk_stripped \in malformed_patterns
        \/ /\ StartsWithBrace(chunk_stripped) /\ ~EndsWithBrace(chunk_stripped)
           /\ StrLen(chunk_stripped) < 15
        \/ /\ StartsWithBracket(chunk_stripped) /\ ~EndsWithBracket(chunk_stripped)
           /\ StrLen(chunk_stripped) < 10
        \/ /\ CountBraces(chunk_stripped, 1) # CountBraces(chunk_stripped, -1)
           /\ StrLen(chunk_stripped) < 20
        \/ /\ CountOpenBrackets(chunk_stripped) # CountCloseBrackets(chunk_stripped)
           /\ StrLen(chunk_stripped) < 20

\* json.loads of the text of atoms: the dict it yields, or valid = FALSE.  The
\* texts of the atoms that are JSON objects are {}, with white space inside,
\* and a chunk head, a string of quote-free atoms and a chunk tail.
JsonLoads(str) ==
    LET n == Len(str)
        invalid == [valid |-> FALSE, has_choices |-> FALSE, text |-> <<>>,
                    finish_reason |-> None]
    IN  IF n >= 2 /\ str[1] = "{" /\ str[n] = "}"
           /\ \A i \in 2..(n - 1) : str[i] = " "
        THEN [invalid EXCEPT !.valid = TRUE]
        ELSE IF n >= 2 /\ str[1] = ChunkHead /\ str[n] \in {ChunkTail, ChunkTailStop}
                /\ \A i \in 2..(n - 1) : str[i] \in StringSafeAtoms
        THEN [valid |-> TRUE, has_choices |-> TRUE, text |-> SubSeq(str, 2, n - 1),
              finish_reason |-> IF str[n] = ChunkTailStop THEN "stop" ELSE None]
        ELSE invalid

\* The scan of try_parse_buffered_chunk from atom i, brace k of it, with the
\* brace_count and start_pos (an atom index, 0 for -1) so far: the first
\* candidate buffer[start_pos:i+1] that json.loads accepts.
RECURSIVE ScanBuffer(_, _, _, _, _)
ScanBuffer(buffer, i, k, brace_count, start_pos) ==
    IF i > Len(buffer) THEN [found |-> FALSE, parsed |-> JsonLoads(<<>>), remaining |-> buffer]
    ELSE IF k > Len(AtomBraces(buffer[i])) THEN ScanBuffer(buffer, i + 1, 1, brace_count, start_pos)
    ELSE IF AtomBraces(buffer[i])[k] = 1
    THEN ScanBuffer(buffer, i, k + 1, brace_count + 1, IF start_pos = 0 THEN i ELSE start_pos)
    ELSE LET count == brace_count - 1
             \* the candidate ends with this brace: it is whole atoms only when
             \* the brace is the last of its atom
             whole == k = Len(AtomBraces(buffer[i]))
             parsed == IF whole /\ start_pos # 0
                       THEN JsonLoads(SubSeq(buffer, start_pos, i))
                       ELSE JsonLoads(<<>>)
         IN  IF count = 0 /\ start_pos # 0 /\ parsed.valid
             THEN [found |-> TRUE, parsed |-> parsed,
                   remaining |-> SubSeq(buffer, i + 1, Len(buffer))]
             ELSE ScanBuffer(buffer, i, k + 1, count, start_pos)

try_parse_buffered_chunk(buffer) ==
    IF Strip(buffer) = <<>>
    THEN [found |-> FALSE, parsed |-> JsonLoads(<<>>), remaining |-> <<>>]
    ELSE ScanBuffer(buffer, 1, 1, 0, 0)

\* ------------------------------------------------------------------------
\* Streaming reassembler: handle_streaming_with_recovery
\* ------------------------------------------------------------------------

text_block_index == 0
max_consecutive_errors == 10
max_malformed_chunks == 20

\* len(chunk_buffer) > 10000: the buffer is cleared.
ChunkBufferLimit == 10000

\* An SSE event; the fields an event does not carry keep these values.
Event(type) ==
    [type |-> type, index |-> -1, block |-> None, delta |-> None, text |-> <<>>,
     id |-> None, name |-> None, model |-> NoModel, stop_reason |-> None,
     input_tokens |-> 0, output_tokens |-> 0]

MessageStart(original_request, tokens) ==
    [Event("message_start") EXCEPT
        !.model = IF original_request.original_model # NoModel
                  THEN original_request.original_model ELSE original_request.model,
        !.input_tokens = tokens]

TextBlockStart == [Event("content_block_start") EXCEPT !.index = text_block_index, !.block = "text"]

Ping == Event("ping")

TextDelta(text) ==
    [Event("content_block_delta") EXCEPT
        !.index = text_block_index, !.delta = "text_delta", !.text = text]

ToolBlockStart(tool_index, tool_call_id, name) ==
    [Event("content_block_start") EXCEPT
        !.index = tool_index, !.block = "tool_use", !.id = tool_call_id, !.name = name]

InputJsonDelta(tool_index, partial_json) ==
    [Event("content_block_delta") EXCEPT
        !.index = tool_index, !.delta = "input_json_delta", !.text = <<partial_json>>]

BlockStop(index) == [Event("content_block_stop") EXCEPT !.index = index]

MessageDelta(stop_reason, tokens_in, tokens_out) ==
    [Event("message_delta") EXCEPT
        !.stop_reason = stop_reason, !.input_tokens = tokens_in, !.output_tokens = tokens_out]

MessageStop == Event("message_stop")

\* The text of the warning the handler sends when it gives up on malformed chunks.
error_text == <<"Gemini streaming encountered repeated malformed chunks. This is a known API issue.">>

\* The state of the handler after its initial events (lines 937-954).
InitialStreamState ==
    [all_chunks |-> <<>>, accumulated_text |-> <<>>, tool_block_counter |-> 0,
     current_tool_calls |-> <<>>, input_tokens |-> 0, output_tokens |-> 0,
     final_stop_reason |-> "end_turn", consecutive_errors |-> 0,
     stream_terminated_early |-> FALSE, malformed_chunks_count |-> 0,
     chunk_buffer |-> <<>>]

\* A chunk of the stream.  kind: "str" (a string fragment, in str), "attr" (an
\* object with a choices attribute), "dict", or "other" (anything else).
Chunk(kind) ==
    [kind |-> kind, str |-> <<>>, has_choices |-> FALSE, has_delta |-> FALSE,
     content |-> <<>>, tool_calls |-> <<>>, finish_reason |-> None,
     has_usage |-> FALSE, prompt_tokens |-> 0, completion_tokens |-> 0]

\* The dict try_parse_buffered_chunk returns for the text it parsed.
ParsedChunk(parsed) ==
    [Chunk("dict") EXCEPT
        !.has_choices = parsed.has_choices, !.has_delta = parsed.has_choices,
        !.content = parsed.text, !.finish_reason = parsed.finish_reason]

\* A tool-call delta.  style "attr": an object with a function attribute;
\* "dict": a mapping, which has no attributes.  id "missing": no id attribute.
ToolCallDelta(style, id, name, arguments) ==
    [style |-> style, id |-> id, name |-> name, arguments |-> arguments]

\* The position of tool_call_id in current_tool_calls, 0 when it is not there.
ToolCallPos(current_tool_calls, tool_call_id) ==
    IF \E i \in 1..Len(current_tool_calls) : current_tool_calls[i].id = tool_call_id
    THEN CHOOSE i \in 1..Len(current_tool_calls) : current_tool_calls[i].id = tool_call_id
    ELSE 0

\* Every tool block at the index after the text block.
FirstToolIndex(tool_block_counter) == text_block_index + 1

\* tool_block_counter += 1; tool_index = text_block_index + tool_block_counter
\* (lines 1143-1144)
NextToolIndex(tool_block_counter) == text_block_index + (tool_block_counter + 1)

\* for tc_chunk in delta_tool_calls (lines 1135-1156).  st: the handler's state,
\* the events yielded so far and whether the loop body raised.
RECURSIVE HandleToolCallDeltas(_, _)
HandleToolCallDeltas(st, delta_tool_calls) ==
    IF delta_tool_calls = <<>> \/ st.raised THEN st
    ELSE
    LET tc_chunk == Head(delta_tool_calls)
        rest == Tail(delta_tool_calls)
        s == st.ss
    IN  IF tc_chunk.style # "attr" \/ tc_chunk.name \in {None, ""}
        THEN HandleToolCallDeltas(st, rest)
        \* tool_call_id = tc_chunk.id: AttributeError
        ELSE IF tc_chunk.id = "missing" THEN [st EXCEPT !.raised = TRUE]
        ELSE
        LET is_new == ToolCallPos(s.current_tool_calls, tc_chunk.id) = 0
            tool_index == NextToolIndex(s.tool_block_counter)
            opened ==
                IF is_new
                THEN Append(s.current_tool_calls,
                            [id |-> tc_chunk.id, index |-> tool_index,
                             name |-> tc_chunk.name,
                             args_buffer |-> IF tc_chunk.arguments = "" THEN <<>>
                                             ELSE <<tc_chunk.arguments>>])
                ELSE s.current_tool_calls
            pos == ToolCallPos(opened, tc_chunk.id)
            buffered ==
                IF tc_chunk.arguments # ""
                THEN [opened EXCEPT ![pos].args_buffer = @ \o <<tc_chunk.arguments>>]
                ELSE opened
            yielded ==
                (IF is_new THEN <<ToolBlockStart(tool_index, tc_chunk.id, tc_chunk.name)>>
                 ELSE <<>>)
                \o (IF tc_chunk.arguments # ""
                    THEN <<InputJsonDelta(opened[pos].index, tc_chunk.arguments)>>
                    ELSE <<>>)
        IN  HandleToolCallDeltas(
                [st EXCEPT
                    !.ss = [s EXCEPT
                              !.tool_block_counter = IF is_new THEN @ + 1 ELSE @,
                              !.current_tool_calls = buffered],
                    !.events = @ \o yielded],
                rest)

\* The stop reason a chunk's finish reason maps to (lines 1159-1167).
StreamStopReason(chunk_finish_reason) ==
    IF chunk_finish_reason = "length" THEN "max_tokens"
    ELSE IF chunk_finish_reason = "tool_calls" THEN "tool_use"
    ELSE "end_turn"

\* Lines 1098-1168: the data of a dict or attribute-style chunk, its events.
\* exit: "continue", "break" or "raise" (an exception of the loop body).
ExtractAndEmit(s, evs, chunk) ==
    LET has_choice == chunk.has_choices
        has_delta == has_choice /\ chunk.has_delta
        delta_content_text == IF has_delta THEN chunk.content ELSE <<>>
        delta_tool_calls == IF has_delta THEN chunk.tool_calls ELSE <<>>
        chunk_finish_reason == IF has_choice THEN chunk.finish_reason ELSE None
        s1 == IF chunk.has_usage
              THEN [s EXCEPT !.input_tokens = chunk.prompt_tokens,
                             !.output_tokens = chunk.completion_tokens]
              ELSE s
        s2 == IF delta_content_text # <<>>
              THEN [s1 EXCEPT !.accumulated_text = @ \o delta_content_text]
              ELSE s1
        evs2 == IF delta_content_text # <<>>
                THEN Append(evs, TextDelta(delta_content_text)) ELSE evs
        st3 == HandleToolCallDeltas([ss |-> s2, events |-> evs2, raised |-> FALSE],
                                    delta_tool_calls)
    IN  IF st3.raised THEN [ss |-> st3.ss, events |-> st3.events, exit |-> "raise"]
        ELSE IF chunk_finish_reason # None
        THEN [ss |-> [st3.ss EXCEPT !.final_stop_reason = StreamStopReason(chunk_finish_reason)],
              events |-> st3.events, exit |-> "break"]
        ELSE [ss |-> st3.ss, events |-> st3.events, exit |-> "continue"]

\* The threshold met as soon as the counter reaches the maximum.
TooManyMalformedAtMaximum(count) == count >= max_malformed_chunks

\* if malformed_chunks_count > max_malformed_chunks (line 1060)
TooManyMalformed(count) == count > max_malformed_chunks

\* A sentinel no fragment equals.
IsNeverDoneSentinel(str) == FALSE

\* if chunk.strip() == "[DONE]" (line 1052)
IsDoneSentinel(str) == Strip(str) = <<"[DONE]">>

\* Lines 1046-1168: the loop body for a chunk the iterator delivered.
ProcessChunk(s0, evs, chunk) ==
    LET s == [s0 EXCEPT !.consecutive_errors = 0, !.all_chunks = Append(@, chunk)]
    IN  IF chunk.kind = "str" THEN
            IF IsDoneSentinel(chunk.str)
            THEN [ss |-> s, events |-> evs, exit |-> "break"]
            ELSE IF is_malformed_chunk(chunk.str) THEN
                LET counted == [s EXCEPT !.malformed_chunks_count = @ + 1]
                IN  IF TooManyMalformed(counted.malformed_chunks_count)
                    THEN [ss |-> [counted EXCEPT !.stream_terminated_early = TRUE],
                          events |-> evs, exit |-> "break"]
                    ELSE [ss |-> counted, events |-> evs, exit |-> "continue"]
            ELSE
                LET tried == try_parse_buffered_chunk(s.chunk_buffer \o chunk.str)
                IN  IF ~tried.found
                    THEN [ss |-> [s EXCEPT !.chunk_buffer =
                                     IF StrLen(tried.remaining) > ChunkBufferLimit
                                     THEN <<>> ELSE tried.remaining],
                          events |-> evs, exit |-> "continue"]
                    ELSE ExtractAndEmit([s EXCEPT !.chunk_buffer = tried.remaining],
                                        evs, ParsedChunk(tried.parsed))
        ELSE IF chunk.kind \in {"dict", "attr"} THEN ExtractAndEmit(s, evs, chunk)
        ELSE [ss |-> s, events |-> evs, exit |-> "continue"]

\* The classes the first two except clauses of the loop catch.
ParseErrorClasses == {"JSONDecodeError", "ValueError"}
ApiErrorClasses == {"APIConnectionError", "RuntimeError"}

\* The cap met by the first exception.
ErrorCapReachedAtOnce(count) == count >= 1

\* if consecutive_errors >= max_consecutive_errors (lines 1174, 1189, 1232)
ErrorCapReached(count) == count >= max_consecutive_errors

\* Lines 1170-1239: the except clauses of the loop for an exception e of the
\* loop body.  exit "raise": the clause raised, and e is then the exception.
HandleLoopError(s, evs, e) ==
    LET counted == [s EXCEPT !.consecutive_errors = @ + 1]
        capped == ErrorCapReached(counted.consecutive_errors)
        terminated == [counted EXCEPT !.stream_terminated_early = TRUE]
    IN  IF e.cls \in ParseErrorClasses THEN
            IF capped THEN [ss |-> terminated, events |-> evs, exit |-> "break"]
            ELSE [ss |-> counted, events |-> evs, exit |-> "continue"]
        ELSE IF e.cls \in ApiErrorClasses THEN
            IF /\ TextContains(e.text, "Error parsing chunk")
               /\ TextContains(e.text, "Expecting property name enclosed in double quotes")
            THEN IF capped
                 THEN [ss |-> terminated, events |-> Append(evs, TextDelta(error_text)),
                       exit |-> "break"]
                 ELSE [ss |-> counted, events |-> evs, exit |-> "continue"]
            ELSE [ss |-> terminated, events |-> evs, exit |-> "break"]
        ELSE IF IsRateLimitSignature(e)
        THEN [ss |-> s, events |-> evs, exit |-> "raise"]
        ELSE IF capped THEN [ss |-> terminated, events |-> evs, exit |-> "break"]
        ELSE [ss |-> counted, events |-> evs, exit |-> "continue"]

\* The exception the rate-limit branch of the loop raises for e (line 1227).
LoopRaises(e) == handle_quota_rate_limit_error(e.text)

\* The clause around the loop when it only logs outer_error.
OuterExceptOnlyLogs(s, outer_error) == s

\* except Exception as outer_error (lines 1241-1243): outer_error is logged
\* and goes no further, the stream counts as terminated early.
OuterExcept(s, outer_error) == [s EXCEPT !.stream_terminated_early = TRUE]

\* Final events that close the text block only.
FinalEventsTextBlockOnly(s, builder) ==
    IF builder.outcome = "raise" THEN <<BlockStop(text_block_index)>>
    ELSE <<BlockStop(text_block_index),
           MessageDelta(s.final_stop_reason, s.input_tokens, s.output_tokens),
           MessageStop>>

\* The final events with final_stop_reason reported as it stands.
FinalEventsKeepStopReason(s, builder) ==
    LET stops == <<BlockStop(text_block_index)>>
                 \o [i \in 1..Len(s.current_tool_calls) |->
                        BlockStop(s.current_tool_calls[i].index)]
        output_tokens ==
            IF builder.outcome = "usage" THEN builder.completion_tokens ELSE s.output_tokens
    IN  IF builder.outcome = "raise" THEN stops
        ELSE stops \o <<MessageDelta(s.final_stop_reason, s.input_tokens, output_tokens),
                        MessageStop>>

\* Lines 1246-1268: the final events.  builder: what litellm.stream_chunk_builder
\* does with all_chunks: "raise", "none", or a response whose usage has
\* completion_tokens.
FinalEvents(s, builder) ==
    LET stops == <<BlockStop(text_block_index)>>
                 \o [i \in 1..Len(s.current_tool_calls) |->
                        BlockStop(s.current_tool_calls[i].index)]
        final_stop_reason ==
            IF s.stream_terminated_early /\ s.final_stop_reason = "end_turn"
            THEN "error" ELSE s.final_stop_reason
        output_tokens ==
            IF builder.outcome = "usage" THEN builder.completion_tokens ELSE s.output_tokens
    IN  IF builder.outcome = "raise" THEN stops
        ELSE stops \o <<MessageDelta(final_stop_reason, s.input_tokens, output_tokens),
                        MessageStop>>

\* ------------------------------------------------------------------------
\* The handlers of /v1/messages and /v1/messages/count_tokens
\* ------------------------------------------------------------------------

\* The longest backend stream, in pulls of the stream loop.
MaxPulls == 2

\* An exception: its class, str(e), and for the classes that carry them the
\* status_code and the detail.
Err(cls, pre, payload, status_code) ==
    [cls |-> cls, text |-> [pre |-> pre, payload |-> payload],
     status_code |-> status_code, detail |-> <<>>]

NoError == Err(None, <<>>, NoPayload, 0)

\* raise HTTPException(...): the exception of an HTTPException value.
RaiseHTTP(h) ==
    [cls |-> "HTTPException", text |-> StrHTTPException(h),
     status_code |-> h.status_code, detail |-> h.detail]

NoMessage ==
    [id |-> None, model |-> NoModel, content |-> <<>>, stop_reason |-> None,
     input_tokens |-> 0, output_tokens |-> 0]

NoResponse == [kind |-> "none", status_code |-> 0, detail |-> <<>>, message |-> NoMessage]

\* FastAPI's answer to an HTTPException that leaves the handler.
ErrorResponse(h) ==
    [kind |-> "http_error", status_code |-> h.status_code, detail |-> h.detail,
     message |-> NoMessage]

NoLitellmRequest == [model |-> NoModel, stream |-> FALSE]

\* One entry of backend_calls.  op: "acompletion", "first" (the pull of the
\* first chunk) or "anext" (a pull of the stream loop).
BackendCall(op, stream, error) ==
    [op |-> op, stream |-> stream, failed |-> error.cls # None, error |-> error,
     events_before |-> Len(events)]

\* The except clauses of create_message (lines 1439-1455): the HTTPException
\* that leaves the handler for an exception e.
OutermostExcept(e) ==
    IF e.cls = "APIError"
    THEN HTTPException(e.status_code, classify_gemini_error(e.text))
    ELSE IF e.cls = "ConnectionError"
    THEN HTTPException(503, <<"Connection error. Please check your internet connection.">>)
    ELSE IF e.cls = "TimeoutError"
    THEN HTTPException(504, <<"Request timeout. Please try again.">>)
    ELSE IF e.cls = "HTTPException" THEN HTTPException(e.status_code, e.detail)
    ELSE HTTPException(500, classify_gemini_error(e.text))

\* except Exception as first_chunk_error (lines 1364-1377): the exception the
\* clause raises.
ExceptFirstChunkError(first_chunk_error) ==
    IF IsRateLimitSignature(first_chunk_error)
    THEN RaiseHTTP(handle_quota_rate_limit_error(first_chunk_error.text))
    ELSE first_chunk_error

\* except Exception as streaming_error (lines 1397-1413): the clause raises
\* (raised = TRUE, the exception in exc) or falls back to non-streaming.
ExceptStreamingError(streaming_error) ==
    IF IsRateLimitSignature(streaming_error)
    THEN [raised |-> TRUE,
          exc |-> RaiseHTTP(handle_quota_rate_limit_error(streaming_error.text))]
    ELSE [raised |-> FALSE, exc |-> NoError]

\* except Exception as non_streaming_error (lines 1425-1437).
ExceptNonStreamingError(non_streaming_error) ==
    IF IsRateLimitSignature(non_streaming_error)
    THEN RaiseHTTP(handle_quota_rate_limit_error(non_streaming_error.text))
    ELSE non_streaming_error

\* ------------------------------------------------------------------------
\* Inputs of the request runs
\* ------------------------------------------------------------------------

DefaultBigModel == <<"gemini-2.0-flash-exp">>
DefaultSmallModel == <<"gemini-1.5-flash-latest">>

Configs ==
    { [big_model |-> DefaultBigModel, small_model |-> DefaultSmallModel,
       force_disable_streaming |-> f, emergency_disable_streaming |-> e]
        : f \in BOOLEAN, e \in BOOLEAN }

DefaultConfig ==
    [big_model |-> DefaultBigModel, small_model |-> DefaultSmallModel,
     force_disable_streaming |-> FALSE, emergency_disable_streaming |-> FALSE]

\* The bodies callers send.  original_model is a field of the request schema:
\* a caller may send it.
Bodies ==
    { [model |-> <<"claude-3-", "Sonnet">>, stream |-> TRUE, original_model |-> NoModel],
      [model |-> <<"claude-3-", "Sonnet">>, stream |-> FALSE, original_model |-> NoModel],
      [model |-> <<"gemini/", "gemini-pro">>, stream |-> TRUE, original_model |-> NoModel],
      [model |-> <<"anthropic/", "claude-3-", "haiku">>, stream |-> FALSE,
       original_model |-> <<"my-model">>] }

\* What litellm.token_counter returns; the handler takes 0 when it raises.
TokenCounts == {0, 12}

QuotaMessage ==
    <<"You exceeded your current quota, please check your plan and billing details.">>

\* The error object of a 429 of the backend.
Payload(form, message, quota_metric, has_retry_info, retry_delay) ==
    [form |-> form, code |-> 429, status |-> "RESOURCE_EXHAUSTED", message |-> message,
     has_quota_failure |-> quota_metric # "", quota_metric |-> quota_metric,
     has_retry_info |-> has_retry_info, retry_delay |-> retry_delay]

FreeTierMetric == "generativelanguage.googleapis.com/generate_content_free_tier_requests"
PerMinuteMetric == "generativelanguage.googleapis.com/generate_content_requests_per_minute"
PerDayMetric == "generativelanguage.googleapis.com/Generate_Requests_Per_Day"

\* The daily quota is exhausted.
QuotaExhaustedError ==
    Err("RateLimitError", <<"litellm.RateLimitError: ">>,
        Payload("bytes_nl", QuotaMessage, FreeTierMetric, TRUE, <<"3", "0", "s">>), 429)

\* The per-minute rate limit is hit.
RateLimitedError ==
    Err("RateLimitError", <<"litellm.RateLimitError: ">>,
        Payload("bytes_nl", QuotaMessage, PerMinuteMetric, TRUE, <<"7", "s">>), 429)

\* A daily limit whose message carries none of the signature words.
DailyLimitError ==
    Err("RateLimitError", <<"litellm.RateLimitError: ">>,
        Payload("json", <<"Daily limit reached.">>, PerDayMetric, FALSE, <<>>), 429)

\* The exceptions of the backend.
BackendErrors ==
    { QuotaExhaustedError, RateLimitedError, DailyLimitError,
      Err("Exception", <<"quota">>, NoPayload, 0),
      Err("RuntimeError", <<"rate limit">>, NoPayload, 0),
      Err("APIConnectionError", <<"Connection reset by peer">>, NoPayload, 0),
      Err("APIConnectionError",
          <<"Error parsing chunk: Expecting property name enclosed in double quotes">>,
          NoPayload, 0),
      Err("ValueError", <<"Invalid API key">>, NoPayload, 0),
      Err("APIError", <<"Request timeout">>, NoPayload, 503),
      Err("ConnectionError", <<"Connection reset by peer">>, NoPayload, 0),
      Err("TimeoutError", <<"Request timeout">>, NoPayload, 0) }

\* The stream ends before its first chunk: __anext__ raises StopAsyncIteration.
StopAsyncIteration == Err("StopAsyncIteration", <<>>, NoPayload, 0)

\* tc_chunk.id of an object without that attribute.
AttributeError == Err("AttributeError", <<"object has no attribute 'id'">>, NoPayload, 0)

TextChunk(kind, text) ==
    [Chunk(kind) EXCEPT !.has_choices = TRUE, !.has_delta = TRUE, !.content = text]

ToolChunk(kind, tc) ==
    [Chunk(kind) EXCEPT !.has_choices = TRUE, !.has_delta = TRUE, !.tool_calls = <<tc>>]

FinishChunk(kind, finish_reason) ==
    [Chunk(kind) EXCEPT !.has_choices = TRUE, !.has_delta = FALSE,
                        !.finish_reason = finish_reason]

StrChunk(str) == [Chunk("str") EXCEPT !.str = str]

\* The chunks of the backend's stream.
StreamChunks ==
    { TextChunk("attr", <<"Hello">>),
      TextChunk("dict", <<"world">>),
      ToolChunk("attr", ToolCallDelta("attr", "call_1", "get_weather", "{\"city\":")),
      ToolChunk("attr", ToolCallDelta("attr", "call_2", "get_time", "")),
      ToolChunk("attr", ToolCallDelta("attr", None, None, "\"Paris\"}")),
      ToolChunk("attr", ToolCallDelta("attr", "missing", "get_weather", "{}")),
      ToolChunk("dict", ToolCallDelta("dict", "call_3", "get_weather", "{}")),
      FinishChunk("attr", "tool_calls"),
      [FinishChunk("dict", "stop") EXCEPT
          !.has_usage = TRUE, !.prompt_tokens = 12, !.completion_tokens = 5],
      StrChunk(<<ChunkHead, "Hello", ChunkTail>>),
      StrChunk(<<ChunkHead, "Hello">>),
      StrChunk(<<ChunkTail>>),
      StrChunk(<<"world", ChunkTailStop>>),
      StrChunk(<<"[DONE]">>),
      Chunk("other") }

\* What litellm.stream_chunk_builder does with all_chunks.
BuilderOutcomes ==
    { [outcome |-> "raise", completion_tokens |-> 0],
      [outcome |-> "none", completion_tokens |-> 0],
      [outcome |-> "usage", completion_tokens |-> 5],
      [outcome |-> "usage", completion_tokens |-> 7] }

\* A backend response of the non-streaming call.
Response(style, content, tool_calls, finish_reason) ==
    [style |-> style, n_choices |-> 1, message |-> "ok", content |-> content,
     tool_calls |-> tool_calls, finish_reason |-> finish_reason, usage |-> "ok",
     prompt_tokens |-> 12, completion_tokens |-> 5, id |-> "chatcmpl-1"]

BackendResponses ==
    { Response("attr", "Hi", NoToolCalls, "stop"),
      Response("dict", "", NoToolCalls, "stop"),
      [Response("attr", "Hi", NoToolCalls, "stop") EXCEPT !.message = "missing"] }

\* ------------------------------------------------------------------------
\* The request runs: one request from its arrival to its answer
\* ------------------------------------------------------------------------

NoGen == [state |-> "none", pulls |-> 0]

\* request_stats = RequestStats(): the counters of __init__ (lines 106-111).
RequestStats ==
    [total_requests |-> 0, successful_requests |-> 0, failed_requests |-> 0]

\* No request has reached the middleware.
NoMiddleware == <<>>

\* AutoRestarter.__init__ (health_monitor.py 200-205); calls: the calls of
\* restart_server so far, each with its time and what it did, in order.
NoRestarter == [restart_times |-> <<>>, calls |-> <<>>]

\* No HealthMonitor runs.
NoMonitor == [running |-> FALSE]

Init ==
    /\ config \in Configs
    /\ request_stats = RequestStats
    /\ clock = 0
    /\ restarter = NoRestarter
    /\ monitor = NoMonitor
    /\ middleware = NoMiddleware
    /\ endpoint = None
    /\ body = NoRequest
    /\ request = NoRequest
    /\ temp_request = NoRequest
    /\ resolveCalls = <<>>
    /\ pc = "idle"
    /\ litellm_request = NoLitellmRequest
    /\ input_tokens = 0
    /\ backend_calls = <<>>
    /\ gen = NoGen
    /\ first_chunk = Chunk("other")
    /\ response = NoResponse
    /\ events = <<>>
    /\ ss = InitialStreamState
    /\ arg = None
    /\ result = None

\* POST /v1/messages: FastAPI builds the MessagesRequest from the body.
ReceiveMessages(b) ==
    /\ pc = "idle"
    /\ endpoint' = "messages"
    /\ body' = b
    /\ request' = MessagesRequest(config, b)
    /\ resolveCalls' = Append(resolveCalls, b.model)
    /\ pc' = "create_message"
    /\ UNCHANGED <<request_stats, middleware, clock, restarter, monitor,
                   config, temp_request, litellm_request, input_tokens, backend_calls, gen,
                   first_chunk, response, events, ss, arg, result>>

\* POST /v1/messages/count_tokens: FastAPI builds the TokenCountRequest.
ReceiveCountTokens(b) ==
    /\ pc = "idle"
    /\ endpoint' = "count_tokens"
    /\ body' = b
    /\ request' = TokenCountRequest(config, b)
    /\ resolveCalls' = Append(resolveCalls, b.model)
    /\ pc' = "count_tokens"
    /\ UNCHANGED <<request_stats, middleware, clock, restarter, monitor,
                   config, temp_request, litellm_request, input_tokens, backend_calls, gen,
                   first_chunk, response, events, ss, arg, result>>

\* count_tokens: the temporary MessagesRequest of the request's model, the
\* count.  counted = FALSE: litellm.token_counter raises e.
count_tokens(counted, token_count, e) ==
    /\ pc = "count_tokens"
    /\ temp_request' =
          MessagesRequest(config, [model |-> request.model, stream |-> FALSE,
                                   original_model |-> NoModel])
    /\ resolveCalls' = Append(resolveCalls, request.model)
    /\ litellm_request' = [model |-> temp_request'.model, stream |-> FALSE]
    /\ response' =
          IF counted
          THEN [kind |-> "token_count", status_code |-> 200, detail |-> <<>>,
                message |-> [NoMessage EXCEPT !.input_tokens = token_count]]
          ELSE ErrorResponse(HTTPException(500,
                  <<"Error counting tokens: ">> \o classify_gemini_error(e.text)))
    /\ pc' = "done"
    /\ UNCHANGED <<request_stats, middleware, clock, restarter, monitor,
                   config, endpoint, body, request, input_tokens, backend_calls, gen,
                   first_chunk, events, ss, arg, result>>

\* The switches with only the emergency one honoured.
EmergencySwitchOnly(cfg, stream) == stream /\ ~cfg.emergency_disable_streaming

\* request.stream after the two streaming switches (lines 1316-1322).
StreamingSwitches(cfg, stream) ==
    /\ stream
    /\ ~cfg.emergency_disable_streaming
    /\ ~cfg.force_disable_streaming

\* create_message up to the backend call (lines 1313-1352): the streaming
\* switches, the backend request, the input tokens of a streaming request.
create_message(token_count) ==
    /\ pc = "create_message"
    /\ LET stream == StreamingSwitches(config, request.stream)
       IN  /\ request' = [request EXCEPT !.stream = stream]
           /\ litellm_request' = [model |-> request.model, stream |-> stream]
           /\ input_tokens' = IF stream THEN token_count ELSE 0
           /\ ~stream => token_count = 0
           /\ pc' = IF stream THEN "acompletion_stream" ELSE "acompletion"
    /\ UNCHANGED <<request_stats, middleware, clock, restarter, monitor,
                   config, endpoint, body, temp_request, resolveCalls, backend_calls, gen,
                   first_chunk, response, events, ss, arg, result>>

\* The HTTPException h leaves create_message.
Answer(h) ==
    /\ response' = ErrorResponse(h)
    /\ pc' = "done"

\* What follows the except clause of the streaming test for the exception e.
AfterStreamingError(e) ==
    LET x == ExceptStreamingError(e)
    IN  IF x.raised
        THEN /\ Answer(OutermostExcept(x.exc))
             /\ UNCHANGED litellm_request
        ELSE /\ litellm_request' = [litellm_request EXCEPT !.stream = FALSE]
             /\ pc' = "acompletion"
             /\ UNCHANGED response

\* await litellm.acompletion(**litellm_request) of the streaming test returns.
StreamCallReturns ==
    /\ pc = "acompletion_stream"
    /\ backend_calls' = Append(backend_calls, BackendCall("acompletion", TRUE, NoError))
    /\ gen' = [state |-> "created", pulls |-> 0]
    /\ pc' = "first_chunk"
    /\ UNCHANGED <<request_stats, middleware, clock, restarter, monitor,
                   config, endpoint, body, request, temp_request, resolveCalls,
                   litellm_request, input_tokens, first_chunk, response, events, ss,
                   arg, result>>

\* It raises e.
StreamCallRaises(e) ==
    /\ pc = "acompletion_stream"
    /\ backend_calls' = Append(backend_calls, BackendCall("acompletion", TRUE, e))
    /\ AfterStreamingError(e)
    /\ UNCHANGED <<request_stats, middleware, clock, restarter, monitor,
                   config, endpoint, body, request, temp_request, resolveCalls,
                   input_tokens, gen, first_chunk, events, ss, arg, result>>

\* await response_generator.__anext__() returns the first chunk: the handler
\* returns the StreamingResponse.
FirstChunkReturns(chunk) ==
    /\ pc = "first_chunk"
    /\ backend_calls' = Append(backend_calls, BackendCall("first", TRUE, NoError))
    /\ first_chunk' = chunk
    /\ gen' = [state |-> "first", pulls |-> 0]
    /\ response' = [kind |-> "stream", status_code |-> 200, detail |-> <<>>,
                    message |-> NoMessage]
    /\ pc' = "stream_start"
    /\ UNCHANGED <<request_stats, middleware, clock, restarter, monitor,
                   config, endpoint, body, request, temp_request, resolveCalls,
                   litellm_request, input_tokens, events, ss, arg, result>>

\* It raises e: the inner except clause, then the outer one.
FirstChunkRaises(e) ==
    /\ pc = "first_chunk"
    /\ backend_calls' = Append(backend_calls, BackendCall("first", TRUE, e))
    /\ AfterStreamingError(ExceptFirstChunkError(e))
    /\ gen' = [gen EXCEPT !.state = "finished"]
    /\ UNCHANGED <<request_stats, middleware, clock, restarter, monitor,
                   config, endpoint, body, request, temp_request, resolveCalls,
                   input_tokens, first_chunk, events, ss, arg, result>>

\* The non-streaming call returns: the translated response is the answer.
NonStreamCallReturns(litellm_response) ==
    /\ pc = "acompletion"
    /\ backend_calls' = Append(backend_calls, BackendCall("acompletion", FALSE, NoError))
    /\ response' = [kind |-> "message", status_code |-> 200, detail |-> <<>>,
                    message |-> convert_litellm_to_anthropic(litellm_response, request)]
    /\ pc' = "done"
    /\ UNCHANGED <<request_stats, middleware, clock, restarter, monitor,
                   config, endpoint, body, request, temp_request, resolveCalls,
                   litellm_request, input_tokens, gen, first_chunk, events, ss, arg, result>>

\* It raises e.
NonStreamCallRaises(e) ==
    /\ pc = "acompletion"
    /\ backend_calls' = Append(backend_calls, BackendCall("acompletion", FALSE, e))
    /\ Answer(OutermostExcept(ExceptNonStreamingError(e)))
    /\ UNCHANGED <<request_stats, middleware, clock, restarter, monitor,
                   config, endpoint, body, request, temp_request, resolveCalls,
                   litellm_request, input_tokens, gen, first_chunk, events, ss, arg, result>>

\* handle_streaming_with_recovery starts: its initial events and state.
StreamStart ==
    /\ pc = "stream_start"
    /\ events' = <<MessageStart(request, input_tokens), TextBlockStart, Ping>>
    /\ ss' = InitialStreamState
    /\ pc' = "stream_loop"
    /\ UNCHANGED <<request_stats, middleware, clock, restarter, monitor,
                   config, endpoint, body, request, temp_request, resolveCalls,
                   litellm_request, input_tokens, backend_calls, gen, first_chunk,
                   response, arg, result>>

\* One turn of the stream loop for a chunk the iterator delivered: the loop
\* body and, when the body raises, the except clause for its exception.
LoopTurn(chunk) ==
    LET body_done == ProcessChunk(ss, events, chunk)
        turn == IF body_done.exit = "raise"
                THEN HandleLoopError(body_done.ss, body_done.events, AttributeError)
                ELSE body_done
    IN  /\ ss' = turn.ss
        /\ events' = turn.events
        /\ pc' = IF turn.exit = "continue" THEN "stream_loop" ELSE "stream_final"

\* anext(stream_iterator) delivers the first chunk, which the generator holds.
PullFirstChunk ==
    /\ pc = "stream_loop"
    /\ gen.state = "first"
    /\ gen' = [gen EXCEPT !.state = "open"]
    /\ LoopTurn(first_chunk)
    /\ UNCHANGED <<request_stats, middleware, clock, restarter, monitor,
                   config, endpoint, body, request, temp_request, resolveCalls,
                   litellm_request, input_tokens, backend_calls, first_chunk, response,
                   arg, result>>

\* anext(stream_iterator) delivers the backend's next chunk.
PullChunk(chunk) ==
    /\ pc = "stream_loop"
    /\ gen.state = "open"
    /\ gen.pulls < MaxPulls
    /\ gen' = [gen EXCEPT !.pulls = @ + 1]
    /\ backend_calls' = Append(backend_calls, BackendCall("anext", TRUE, NoError))
    /\ LoopTurn(chunk)
    /\ UNCHANGED <<request_stats, middleware, clock, restarter, monitor,
                   config, endpoint, body, request, temp_request, resolveCalls,
                   litellm_request, input_tokens, first_chunk, response, arg, result>>

\* anext(stream_iterator) raises the backend's exception e, which ends the
\* generator.  An HTTPException the rate-limit branch raises is caught by the
\* except clause around the loop.
PullRaises(e) ==
    /\ pc = "stream_loop"
    /\ gen.state = "open"
    /\ gen.pulls < MaxPulls
    /\ gen' = [state |-> "finished", pulls |-> gen.pulls + 1]
    /\ backend_calls' = Append(backend_calls, BackendCall("anext", TRUE, e))
    /\ LET turn == HandleLoopError(ss, events, e)
       IN  /\ ss' = IF turn.exit = "raise" THEN OuterExcept(turn.ss, LoopRaises(e))
                    ELSE turn.ss
           /\ events' = turn.events
           /\ pc' = IF turn.exit = "continue" THEN "stream_loop" ELSE "stream_final"
    /\ UNCHANGED <<request_stats, middleware, clock, restarter, monitor,
                   config, endpoint, body, request, temp_request, resolveCalls,
                   litellm_request, input_tokens, first_chunk, response, arg, result>>

\* anext(stream_iterator) raises StopAsyncIteration: the stream has ended, or
\* the generator is finished.
PullEnds ==
    /\ pc = "stream_loop"
    /\ gen.state \in {"open", "finished"}
    /\ gen' = [gen EXCEPT !.state = "finished"]
    /\ pc' = "stream_final"
    /\ UNCHANGED <<request_stats, middleware, clock, restarter, monitor,
                   config, endpoint, body, request, temp_request, resolveCalls,
                   litellm_request, input_tokens, backend_calls, first_chunk, response,
                   events, ss, arg, result>>

\* No chunk within 90 seconds: asyncio.TimeoutError.
PullTimesOut ==
    /\ pc = "stream_loop"
    /\ gen.state = "open"
    /\ gen' = [gen EXCEPT !.state = "finished"]
    /\ ss' = [ss EXCEPT !.stream_terminated_early = TRUE]
    /\ pc' = "stream_final"
    /\ UNCHANGED <<request_stats, middleware, clock, restarter, monitor,
                   config, endpoint, body, request, temp_request, resolveCalls,
                   litellm_request, input_tokens, backend_calls, first_chunk, response,
                   events, arg, result>>

\* The final events.
StreamFinal(builder) ==
    /\ pc = "stream_final"
    /\ events' = events \o FinalEvents(ss, builder)
    /\ pc' = "done"
    /\ UNCHANGED <<request_stats, middleware, clock, restarter, monitor,
                   config, endpoint, body, request, temp_request, resolveCalls,
                   litellm_request, input_tokens, backend_calls, gen, first_chunk,
                   response, ss, arg, result>>

Next ==
    \/ \E b \in Bodies : ReceiveMessages(b)
    \/ \E b \in Bodies : ReceiveCountTokens(b)
    \/ \E n \in TokenCounts \ {0} : count_tokens(TRUE, n, NoError)
    \/ \E e \in BackendErrors : count_tokens(FALSE, 0, e)
    \/ \E n \in TokenCounts : create_message(n)
    \/ StreamCallReturns
    \/ \E e \in BackendErrors : StreamCallRaises(e)
    \/ \E c \in StreamChunks : FirstChunkReturns(c)
    \/ \E e \in BackendErrors \cup {StopAsyncIteration} : FirstChunkRaises(e)
    \/ \E r \in BackendResponses : NonStreamCallReturns(r)
    \/ \E e \in BackendErrors : NonStreamCallRaises(e)
    \/ StreamStart
    \/ PullFirstChunk
    \/ \E c \in StreamChunks : PullChunk(c)
    \/ \E e \in BackendErrors : PullRaises(e)
    \/ PullEnds
    \/ PullTimesOut
    \/ \E b \in BuilderOutcomes : StreamFinal(b)

Spec == Init /\ [][Next]_vars

\* ------------------------------------------------------------------------
\* Runs of the model resolver
\* ------------------------------------------------------------------------

\* The model strings of at most n atoms.
RECURSIVE ModelStrings(_)
ModelStrings(n) ==
    IF n = 0 THEN {<<>>}
    ELSE LET shorter == ModelStrings(n - 1)
         IN  shorter \cup { Append(m, a) : m \in shorter, a \in ModelAtoms }

\* The configurations: BIG_MODEL and SMALL_MODEL are free text.
ResolveConfigs ==
    { [big_model |-> big, small_model |-> small,
       force_disable_streaming |-> FALSE, emergency_disable_streaming |-> FALSE]
        : big \in {DefaultBigModel, <<"my-model">>, <<"big-", "haiku">>},
          small \in {DefaultSmallModel, <<"my-model">>, <<"haiku">>, <<"small-", "Sonnet">>} }

InitResolve ==
    /\ config \in ResolveConfigs
    /\ request_stats = RequestStats
    /\ clock = 0
    /\ restarter = NoRestarter
    /\ monitor = NoMonitor
    /\ middleware = NoMiddleware
    /\ arg \in ModelStrings(MaxModelAtoms) \ {<<>>}
    /\ result = <<>>
    /\ pc = "resolve"
    /\ endpoint = None
    /\ body = NoRequest
    /\ request = NoRequest
    /\ temp_request = NoRequest
    /\ resolveCalls = <<>>
    /\ litellm_request = NoLitellmRequest
    /\ input_tokens = 0
    /\ backend_calls = <<>>
    /\ gen = NoGen
    /\ first_chunk = Chunk("other")
    /\ response = NoResponse
    /\ events = <<>>
    /\ ss = InitialStreamState

\* model_manager.validate_and_map_model(arg)
Resolve ==
    /\ pc = "resolve"
    /\ result' = <<validate_and_map_model(config, arg)>>
    /\ resolveCalls' = <<arg>>
    /\ pc' = "resolved"
    /\ UNCHANGED <<request_stats, middleware, clock, restarter, monitor,
                   config, endpoint, body, request, temp_request, litellm_request,
                   input_tokens, backend_calls, gen, first_chunk, response, events, ss, arg>>

\* model_manager.validate_and_map_model of the model id it returned.
ResolveAgain ==
    /\ pc = "resolved"
    /\ result' = Append(result, validate_and_map_model(config, result[1][1]))
    /\ resolveCalls' = Append(resolveCalls, result[1][1])
    /\ pc' = "resolved_again"
    /\ UNCHANGED <<request_stats, middleware, clock, restarter, monitor,
                   config, endpoint, body, request, temp_request, litellm_request,
                   input_tokens, backend_calls, gen, first_chunk, response, events, ss, arg>>

NextResolve == Resolve \/ ResolveAgain

SpecResolve == InitResolve /\ [][NextResolve]_vars

\* ------------------------------------------------------------------------
\* Runs of the quota / rate-limit classifier
\* ------------------------------------------------------------------------

QuotaMetrics ==
    { "", FreeTierMetric, PerDayMetric, PerMinuteMetric,
      "generativelanguage.googleapis.com/input_tokens_per_day",
      "generativelanguage.googleapis.com/input_tokens_per_minute",
      "characters_per_day", "characters_per_minute",
      "requests_per_day_per_requests_per_minute",
      "generativelanguage.googleapis.com/free_tier_input_token_count",
      "generativelanguage.googleapis.com/unknown_metric" }

ClassifyPayloads ==
    { NoPayload } \cup
    { [Payload(form, message, metric, has_retry, IF has_retry THEN <<"7", "s">> ELSE <<>>)
          EXCEPT !.status = IF metric = "" THEN "" ELSE "RESOURCE_EXHAUSTED"]
        : form \in {"json", "bytes", "bytes_nl"},
          message \in {QuotaMessage, <<"Daily limit reached.">>, <<>>},
          metric \in QuotaMetrics,
          has_retry \in BOOLEAN }

ClassifyErrors ==
    { Err(cls, pre, payload, 0)
        : cls \in {"RateLimitError", "Exception"},
          pre \in { <<>>, <<"litellm.RateLimitError: ">>, <<"Quota exceeded.">>,
                    <<"quota">>, <<"free_tier">>, <<"rate limit">> },
          payload \in ClassifyPayloads }

InitClassify ==
    /\ config = DefaultConfig
    /\ request_stats = RequestStats
    /\ clock = 0
    /\ restarter = NoRestarter
    /\ monitor = NoMonitor
    /\ middleware = NoMiddleware
    /\ arg \in ClassifyErrors
    /\ result = HTTPException(0, <<>>)
    /\ pc = "classify"
    /\ endpoint = None
    /\ body = NoRequest
    /\ request = NoRequest
    /\ temp_request = NoRequest
    /\ resolveCalls = <<>>
    /\ litellm_request = NoLitellmRequest
    /\ input_tokens = 0
    /\ backend_calls = <<>>
    /\ gen = NoGen
    /\ first_chunk = Chunk("other")
    /\ response = NoResponse
    /\ events = <<>>
    /\ ss = InitialStreamState

\* handle_quota_rate_limit_error(arg, request, config)
Classify ==
    /\ pc = "classify"
    /\ result' = handle_quota_rate_limit_error(arg.text)
    /\ pc' = "classified"
    /\ UNCHANGED <<request_stats, middleware, clock, restarter, monitor,
                   config, endpoint, body, request, temp_request, resolveCalls,
                   litellm_request, input_tokens, backend_calls, gen, first_chunk,
                   response, events, ss, arg>>

NextClassify == Classify

SpecClassify == InitClassify /\ [][NextClassify]_vars

\* ------------------------------------------------------------------------
\* Runs of the response translator
\* ------------------------------------------------------------------------

ToolCallShapes ==
    { NoToolCalls,
      [kind |-> "missing", items |-> <<>>],
      [kind |-> "list", items |-> <<>>],
      [kind |-> "list",
       items |-> <<[style |-> "dict", id |-> "call_1", name |-> "get_weather",
                    arguments |-> "object"]>>],
      [kind |-> "list",
       items |-> <<[style |-> "attr", id |-> "call_1", name |-> "get_weather",
                    arguments |-> "invalid"],
                   [style |-> "dict", id |-> "missing", name |-> "missing",
                    arguments |-> "missing"]>>],
      [kind |-> "list",
       items |-> <<[style |-> "attr", id |-> None, name |-> "get_weather",
                    arguments |-> "object"]>>],
      [kind |-> "list",
       items |-> <<[style |-> "dict", id |-> "call_1", name |-> "get_weather",
                    arguments |-> "array"]>>],
      [kind |-> "list",
       items |-> <<[style |-> "attr", id |-> "call_1", name |-> "get_weather",
                    arguments |-> None]>>],
      [kind |-> "list",
       items |-> <<[style |-> "other", id |-> "missing", name |-> "missing",
                    arguments |-> "missing"]>>],
      [kind |-> "single",
       items |-> <<[style |-> "attr", id |-> "call_1", name |-> "get_weather",
                    arguments |-> "object"]>>] }

ConvertResponses ==
    { [style |-> style, n_choices |-> n_choices, message |-> message,
       content |-> content, tool_calls |-> tool_calls, finish_reason |-> finish_reason,
       usage |-> usage, prompt_tokens |-> 12, completion_tokens |-> 5, id |-> id]
        : style \in {"attr", "dict", "other"},
          n_choices \in {0, 1},
          message \in {"ok", None, "missing"},
          content \in {"Hi", "", None, "missing", "not_a_string"},
          tool_calls \in ToolCallShapes,
          finish_reason \in {"stop", "tool_calls", None, "missing"},
          usage \in {"ok", None, "missing", "no_tokens", "null_tokens"},
          id \in {"chatcmpl-1", "missing", None} }

InitConvert ==
    /\ config = DefaultConfig
    /\ request_stats = RequestStats
    /\ clock = 0
    /\ restarter = NoRestarter
    /\ monitor = NoMonitor
    /\ middleware = NoMiddleware
    /\ arg \in ConvertResponses
    /\ request = MessagesRequest(config, [model |-> <<"claude-3-", "Sonnet">>,
                                          stream |-> FALSE, original_model |-> NoModel])
    /\ result = NoMessage
    /\ pc = "convert"
    /\ endpoint = None
    /\ body = NoRequest
    /\ temp_request = NoRequest
    /\ resolveCalls = <<>>
    /\ litellm_request = NoLitellmRequest
    /\ input_tokens = 0
    /\ backend_calls = <<>>
    /\ gen = NoGen
    /\ first_chunk = Chunk("other")
    /\ response = NoResponse
    /\ events = <<>>
    /\ ss = InitialStreamState

\* convert_litellm_to_anthropic(arg, request)
Convert ==
    /\ pc = "convert"
    /\ result' = convert_litellm_to_anthropic(arg, request)
    /\ pc' = "converted"
    /\ UNCHANGED <<request_stats, middleware, clock, restarter, monitor,
                   config, endpoint, body, request, temp_request, resolveCalls,
                   litellm_request, input_tokens, backend_calls, gen, first_chunk,
                   response, events, ss, arg>>

NextConvert == Convert

SpecConvert == InitConvert /\ [][NextConvert]_vars

\* ------------------------------------------------------------------------
\* Runs of the request translator
\* ------------------------------------------------------------------------

MaxBlocks == 3

\* The variables of a request run, at rest while a pure function is applied.
NoRequestRun ==
    /\ endpoint = None
    /\ body = NoRequest
    /\ temp_request = NoRequest
    /\ resolveCalls = <<>>
    /\ litellm_request = NoLitellmRequest
    /\ input_tokens = 0
    /\ backend_calls = <<>>
    /\ gen = NoGen
    /\ first_chunk = Chunk("other")
    /\ response = NoResponse
    /\ events = <<>>
    /\ ss = InitialStreamState

RequestRunVars ==
    <<endpoint, body, temp_request, resolveCalls, litellm_request, input_tokens,
      backend_calls, gen, first_chunk, response, events, ss>>

\* "".join(parts)
RECURSIVE Join(_)
Join(parts) == IF parts = <<>> THEN <<>> ELSE Head(parts) \o Join(Tail(parts))

\* "\n".join(parts)
RECURSIVE JoinLines(_)
JoinLines(parts) ==
    IF parts = <<>> THEN <<>>
    ELSE IF Len(parts) = 1 THEN Head(parts)
    ELSE Head(parts) \o <<"\n">> \o JoinLines(Tail(parts))

\* The content of a ToolResult block: absent, a string, a list of items, a
\* mapping, or any other value.
ToolResultContent(kind, text, items) == [kind |-> kind, text |-> text, items |-> items]

ContentItem(kind, text) == [kind |-> kind, text |-> text]

JsonDumped == <<"{\"k\": 1}">>

RECURSIVE ResultParts(_)
ResultParts(items) ==
    IF items = <<>> THEN <<>>
    ELSE LET item == Head(items)
             part == CASE item.kind \in {"text_dict", "str", "text_key_dict"} -> <<item.text>>
                       [] item.kind = "other_dict" -> <<JsonDumped>>
                       [] OTHER -> <<>>
         IN part \o ResultParts(Tail(items))

parse_tool_result_content(content) ==
    CASE content.kind = "none" -> <<"No content provided">>
      [] content.kind = "str" -> content.text
      [] content.kind = "list" -> Strip(JoinLines(ResultParts(content.items)))
      [] content.kind = "text_dict" -> content.text
      [] content.kind = "dict" -> JsonDumped
      [] OTHER -> <<"7">>

\* Content blocks of a frontend message.
NoContent == ToolResultContent("none", <<>>, <<>>)

Block(type) ==
    [type |-> type, text |-> <<>>, source |-> None, id |-> None,
     tool_use_id |-> None, content |-> NoContent]

ContentBlockText(text) == [Block("text") EXCEPT !.text = text]
ContentBlockImage(source) == [Block("image") EXCEPT !.source = source]
ContentBlockToolUse(id) == [Block("tool_use") EXCEPT !.id = id]
ContentBlockToolResult(tool_use_id, content) ==
    [Block("tool_result") EXCEPT !.tool_use_id = tool_use_id, !.content = content]

\* Backend messages and their content: a string, a list of parts, or None.
StrContent(text) == [kind |-> "str", text |-> text, parts |-> <<>>]
PartsContent(parts) == [kind |-> "parts", text |-> <<>>, parts |-> parts]
NoneContent == [kind |-> "none", text |-> <<>>, parts |-> <<>>]

TextPart(text) == [type |-> "text", text |-> text, url |-> None]
ImagePart(source) == [type |-> "image_url", text |-> <<>>, url |-> source]

LitellmMessage(role, content) ==
    [role |-> role, content |-> content, tool_call_id |-> None, tool_calls |-> <<>>]

ToolMessage(tool_call_id, parsed_content) ==
    [LitellmMessage("tool", StrContent(parsed_content)) EXCEPT !.tool_call_id = tool_call_id]

\* content_parts[0]["text"] if there is exactly one part and it is text,
\* else the list of parts
ContentOfParts(text_parts, image_parts) ==
    LET text_content == Strip(Join(text_parts))
        content_parts == (IF text_content # <<>> THEN <<TextPart(text_content)>> ELSE <<>>)
                            \o image_parts
    IN IF Len(content_parts) = 1 /\ content_parts[1].type = "text"
         THEN StrContent(content_parts[1].text)
         ELSE PartsContent(content_parts)

ImageSourceIsBase64(source) == source = "base64"

InitialBlockState ==
    [text_parts |-> <<>>, image_parts |-> <<>>, tool_calls |-> <<>>,
     pending_tool_messages |-> <<>>, litellm_messages |-> <<>>]

\* One turn of the loop over the blocks of a message.
ConvertBlock(role, st, block) ==
    CASE block.type = "text" ->
            [st EXCEPT !.text_parts = Append(@, block.text)]
      [] block.type = "image" ->
            IF ImageSourceIsBase64(block.source)
              THEN [st EXCEPT !.image_parts = Append(@, ImagePart(block.source))]
              ELSE st
      [] block.type = "tool_use" /\ role = "assistant" ->
            [st EXCEPT !.tool_calls = Append(@, block.id)]
      [] block.type = "tool_result" /\ role = "user" ->
            LET split == st.text_parts # <<>> \/ st.image_parts # <<>>
                flushed ==
                    IF split
                      THEN [st EXCEPT
                              !.litellm_messages =
                                  Append(@, LitellmMessage("user",
                                              ContentOfParts(st.text_parts, st.image_parts))),
                              !.text_parts = <<>>,
                              !.image_parts = <<>>]
                      ELSE st
            IN [flushed EXCEPT
                  !.pending_tool_messages =
                      Append(@, ToolMessage(block.tool_use_id,
                                            parse_tool_result_content(block.content)))]
      [] OTHER -> st

RECURSIVE ConvertBlocks(_, _, _)
ConvertBlocks(role, st, blocks) ==
    IF blocks = <<>> THEN st
    ELSE ConvertBlocks(role, ConvertBlock(role, st, Head(blocks)), Tail(blocks))

\* The backend messages one frontend message turns into.
ConvertMessage(msg) ==
    IF msg.kind = "str" THEN <<LitellmMessage(msg.role, StrContent(msg.text))>>
    ELSE
    LET st == ConvertBlocks(msg.role, InitialBlockState, msg.blocks)
    IN CASE msg.role = "user" ->
              st.litellm_messages
                \o (IF st.text_parts # <<>> \/ st.image_parts # <<>>
                      THEN <<LitellmMessage("user",
                                ContentOfParts(st.text_parts, st.image_parts))>>
                      ELSE <<>>)
                \o st.pending_tool_messages
         [] msg.role = "assistant" ->
              LET text_content == Strip(Join(st.text_parts))
                  has_parts == text_content # <<>> \/ st.image_parts # <<>>
                  content == IF has_parts
                               THEN ContentOfParts(st.text_parts, st.image_parts)
                               ELSE NoneContent
                  \* a content of "" cannot arise: the text is kept only when non-empty
                  assistant_msg == [LitellmMessage("assistant", content)
                                      EXCEPT !.tool_calls = st.tool_calls]
              IN IF has_parts \/ st.tool_calls # <<>>
                   THEN <<assistant_msg>>
                   ELSE <<>>
         [] OTHER -> <<>>

RECURSIVE ConvertMessages(_)
ConvertMessages(messages) ==
    IF messages = <<>> THEN <<>>
    ELSE ConvertMessage(Head(messages)) \o ConvertMessages(Tail(messages))

BlockTexts == { <<"Run", " it">>, <<" ">>, <<" ", "ok", "\n">> }

\* ContentBlockToolResult.content is a string, a list of mappings or a mapping.
ToolResultContents ==
    { ToolResultContent("str", <<" ", "done">>, <<>>),
      ToolResultContent("list", <<>>,
          <<ContentItem("text_dict", <<"line 1">>), ContentItem("text_key_dict", <<"line 2", " ">>)>>),
      ToolResultContent("list", <<>>,
          <<ContentItem("other_dict", <<>>), ContentItem("text_key_dict", <<"tail">>)>>),
      ToolResultContent("list", <<>>, <<>>),
      ToolResultContent("text_dict", <<"done">>, <<>>),
      ToolResultContent("dict", <<>>, <<>>) }

ContentBlocks ==
    { ContentBlockText(t) : t \in BlockTexts }
      \cup { ContentBlockImage(src) : src \in {"base64", "url"} }
      \cup { ContentBlockToolUse("toolu_1") }
      \cup { ContentBlockToolResult("toolu_1", c) : c \in ToolResultContents }

\* Seq(S) up to length n
BlockSeqs(n) == UNION { [1..k -> ContentBlocks] : k \in 0..n }

Message(role, kind, text, blocks) ==
    [role |-> role, kind |-> kind, text |-> text, blocks |-> blocks]

Messages ==
    { Message(role, "str", text, <<>>)
         : role \in {"user", "assistant"}, text \in {<<"Run", " it">>, <<>>} }
      \cup { Message(role, "blocks", <<>>, blocks)
               : role \in {"user", "assistant"}, blocks \in BlockSeqs(MaxBlocks) }

InitTranslate ==
    /\ config = DefaultConfig
    /\ request_stats = RequestStats
    /\ clock = 0
    /\ restarter = NoRestarter
    /\ monitor = NoMonitor
    /\ middleware = NoMiddleware
    /\ arg \in Messages
    /\ request = NoRequest
    /\ result = <<>>
    /\ pc = "translate"
    /\ NoRequestRun

\* The loop of convert_anthropic_to_litellm over the messages <<arg>>
Translate ==
    /\ pc = "translate"
    /\ result' = ConvertMessages(<<arg>>)
    /\ pc' = "translated"
    /\ UNCHANGED <<request_stats, middleware, clock, restarter, monitor,
                   config, request, arg>>
    /\ UNCHANGED RequestRunVars

NextTranslate == Translate

SpecTranslate == InitTranslate /\ [][NextTranslate]_vars

\* ------------------------------------------------------------------------
\* Runs of the stream loop over string fragments
\* ------------------------------------------------------------------------

MaxFragments == 3

\* The malformed fragments the loop may already have skipped when a run is
\* taken up: none, or one fewer than max_malformed_chunks.
SkippedBefore == {0, max_malformed_chunks - 1}

SkippedFragment == StrChunk(<<"{">>)

\* The state of the handler after it skipped k malformed fragments.
StreamStateAfterSkipping(k) ==
    [InitialStreamState EXCEPT
        !.all_chunks = [i \in 1..k |-> SkippedFragment],
        !.malformed_chunks_count = k]

\* The fragments and chunks of the backend's stream: fragments the detector
\* rejects, complete chunks as strings and as objects, and the two parts of a
\* chunk split in the middle.
ReassembleChunks ==
    { StrChunk(<<"{">>),
      StrChunk(<<" ">>),
      StrChunk(<<"null">>),
      StrChunk(<<"{", "}">>),
      StrChunk(<<ChunkHead, "Hello", ChunkTail>>),
      StrChunk(<<ChunkHead, "world", ChunkTail>>),
      StrChunk(<<ChunkHead, "{", ChunkTail>>),
      StrChunk(<<ChunkHead, LongText, ChunkTail>>),
      TextChunk("attr", <<"Hello">>),
      TextChunk("dict", <<"world">>),
      StrChunk(<<ChunkHead>>),
      StrChunk(<<ChunkHead, "Hello">>),
      StrChunk(<<ChunkHead, LongText>>),
      StrChunk(<<ChunkTail>>),
      StrChunk(<<"Hello", ChunkTail>>),
      StrChunk(<<LongText, ChunkTail>>),
      StrChunk(<<"world", LongText, ChunkTail>>) }

InitReassemble ==
    /\ config = DefaultConfig
    /\ request_stats = RequestStats
    /\ clock = 0
    /\ restarter = NoRestarter
    /\ monitor = NoMonitor
    /\ middleware = NoMiddleware
    /\ arg \in SkippedBefore
    /\ request = MessagesRequest(config, [model |-> <<"claude-3-", "Sonnet">>,
                                          stream |-> TRUE, original_model |-> NoModel])
    /\ ss = StreamStateAfterSkipping(arg)
    /\ events = <<MessageStart(request, 0), TextBlockStart, Ping>>
    /\ gen = [state |-> "open", pulls |-> 0]
    /\ pc = "stream_loop"
    /\ result = None
    /\ endpoint = "/v1/messages"
    /\ body = NoRequest
    /\ temp_request = NoRequest
    /\ resolveCalls = <<>>
    /\ litellm_request = NoLitellmRequest
    /\ input_tokens = 0
    /\ backend_calls = <<>>
    /\ first_chunk = Chunk("other")
    /\ response = NoResponse

\* anext(stream_iterator) delivers a fragment; the loop body handles it.
Feed(chunk) ==
    /\ pc = "stream_loop"
    /\ gen.state = "open"
    /\ gen.pulls < MaxFragments
    /\ gen' = [gen EXCEPT !.pulls = @ + 1]
    /\ LoopTurn(chunk)
    /\ UNCHANGED <<request_stats, middleware, clock, restarter, monitor,
                   config, endpoint, body, request, temp_request, resolveCalls,
                   litellm_request, input_tokens, backend_calls, first_chunk, response,
                   arg, result>>

NextReassemble ==
    \/ \E chunk \in ReassembleChunks : Feed(chunk)
    \/ PullEnds
    \/ \E builder \in BuilderOutcomes : StreamFinal(builder)

SpecReassemble == InitReassemble /\ [][NextReassemble]_vars

\* ------------------------------------------------------------------------
\* Runs of the retry-delay extraction
\* ------------------------------------------------------------------------

\* retryDelay values of a RetryInfo entry: a duration in seconds, written as
\* the backend writes it; <<>> when the entry has no retryDelay.
RetryDelays ==
    { <<"2", "5", "s">>, <<"1", "2", "0", "s">>, <<"7", "s">>, <<"0", ".", "5", "s">>,
      <<"4", "2", "9", "s">>, <<>> }

RetryDelayPayloads ==
    { NoPayload } \cup
    { Payload(form, QuotaMessage, metric, has_retry, delay)
        : form \in {"json", "bytes", "bytes_nl"},
          metric \in {"", FreeTierMetric, PerMinuteMetric},
          has_retry \in {TRUE},
          delay \in RetryDelays } \cup
    { Payload(form, QuotaMessage, metric, FALSE, <<>>)
        : form \in {"json", "bytes", "bytes_nl"},
          metric \in {"", FreeTierMetric, PerMinuteMetric} }

RetryDelayErrors ==
    { Err(cls, pre, payload, 0)
        : cls \in {"RateLimitError", "Exception"},
          pre \in { <<>>, <<"litellm.RateLimitError: ">>, <<"RateLimitError: Too many requests">> },
          payload \in RetryDelayPayloads }

InitRetryDelay ==
    /\ config = DefaultConfig
    /\ request_stats = RequestStats
    /\ clock = 0
    /\ restarter = NoRestarter
    /\ monitor = NoMonitor
    /\ middleware = NoMiddleware
    /\ arg \in RetryDelayErrors
    /\ request = NoRequest
    /\ result = 0
    /\ pc = "extract"
    /\ NoRequestRun

\* extract_retry_delay(str(arg))
ExtractRetryDelay ==
    /\ pc = "extract"
    /\ result' = extract_retry_delay(arg.text)
    /\ pc' = "extracted"
    /\ UNCHANGED <<request_stats, middleware, clock, restarter, monitor,
                   config, request, arg>>
    /\ UNCHANGED RequestRunVars

NextRetryDelay == ExtractRetryDelay

SpecRetryDelay == InitRetryDelay /\ [][NextRetryDelay]_vars

\* ------------------------------------------------------------------------
\* Tool schemas: clean_gemini_schema
\* ------------------------------------------------------------------------

MaxSchemaDepth == 2

\* A JSON value: a mapping (its entries in order), a list, or a scalar.
Scalar(v) == [kind |-> "scalar", value |-> v, entries |-> <<>>, items |-> <<>>]
Mapping(entries) == [kind |-> "dict", value |-> "", entries |-> entries, items |-> <<>>]
List(items) == [kind |-> "list", value |-> "", entries |-> <<>>, items |-> items]

Entry(key, value) == [key |-> key, value |-> value]

\* "key" in schema, schema.get(key)
HasKey(entries, key) == \E i \in 1..Len(entries) : entries[i].key = key

GetKey(entries, key) ==
    IF HasKey(entries, key)
    THEN entries[CHOOSE i \in 1..Len(entries) : entries[i].key = key].value
    ELSE Scalar("None")

\* schema.pop(key, None)
Pop(entries, key) == SelectSeq(entries, LAMBDA e : e.key # key)

allowed_formats == {Scalar("enum"), Scalar("date-time")}

\* Only additionalProperties is removed.
PopAdditionalPropertiesOnly(entries) == Pop(entries, "additionalProperties")

\* The fields Gemini does not support are removed from a mapping.
PopUnsupportedFields(entries) == Pop(Pop(entries, "additionalProperties"), "default")

\* A string's format is removed unless it is an allowed one.
RestrictStringFormat(entries) ==
    IF /\ GetKey(entries, "type") = Scalar("string")
       /\ HasKey(entries, "format")
       /\ GetKey(entries, "format") \notin allowed_formats
    THEN Pop(entries, "format")
    ELSE entries

RECURSIVE clean_gemini_schema(_)
clean_gemini_schema(schema) ==
    IF schema.kind = "dict" THEN
        LET kept == RestrictStringFormat(PopUnsupportedFields(schema.entries))
        IN  Mapping([i \in 1..Len(kept) |->
                        Entry(kept[i].key, clean_gemini_schema(kept[i].value))])
    ELSE IF schema.kind = "list" THEN
        List([i \in 1..Len(schema.items) |-> clean_gemini_schema(schema.items[i])])
    ELSE schema

\* Schemas of tools.  The innermost ones describe one value.
OptionalEntry(key, values) == { <<>> } \cup { <<Entry(key, Scalar(v))>> : v \in values }

LeafSchemas ==
    { Mapping(t \o f \o d \o a)
        : t \in OptionalEntry("type", {"string", "integer"}),
          f \in OptionalEntry("format", {"uri", "enum", "date-time"}),
          d \in OptionalEntry("default", {"x"}),
          a \in OptionalEntry("additionalProperties", {"false"}) }

\* The schemas that hold the schema c: as a property, as the items of an
\* array, in a list of alternatives, as a property named default, as a default
\* value, and in a list inside a list.
SchemasAround(c) ==
    { Mapping(<<Entry("type", Scalar("object")),
                Entry("properties", Mapping(<<Entry("city", c)>>)),
                Entry("additionalProperties", Scalar("false"))>>),
      Mapping(<<Entry("type", Scalar("array")),
                Entry("items", c),
                Entry("default", List(<<>>))>>),
      Mapping(<<Entry("anyOf", List(<<c, Mapping(<<Entry("type", Scalar("null"))>>)>>))>>),
      Mapping(<<Entry("type", Scalar("string")),
                Entry("format", Scalar("uri")),
                Entry("properties", Mapping(<<Entry("default", c), Entry("unit", c)>>))>>),
      Mapping(<<Entry("type", Scalar("integer")),
                Entry("format", Scalar("int32")),
                Entry("examples", List(<<List(<<c>>), Scalar("x")>>))>>) }

RECURSIVE Schemas(_)
Schemas(depth) ==
    IF depth = 0 THEN LeafSchemas
    ELSE Schemas(depth - 1) \cup UNION { SchemasAround(c) : c \in Schemas(depth - 1) }

InitSchema ==
    /\ config = DefaultConfig
    /\ request_stats = RequestStats
    /\ clock = 0
    /\ restarter = NoRestarter
    /\ monitor = NoMonitor
    /\ middleware = NoMiddleware
    /\ arg \in Schemas(MaxSchemaDepth)
    /\ request = NoRequest
    /\ result = Scalar("None")
    /\ pc = "clean"
    /\ NoRequestRun

\* cleaned_schema = clean_gemini_schema(tool.input_schema)
CleanSchema ==
    /\ pc = "clean"
    /\ result' = clean_gemini_schema(arg)
    /\ pc' = "cleaned"
    /\ UNCHANGED <<request_stats, middleware, clock, restarter, monitor,
                   config, request, arg>>
    /\ UNCHANGED RequestRunVars

NextSchema == CleanSchema

SpecSchema == InitSchema /\ [][NextSchema]_vars

\* ------------------------------------------------------------------------
\* Runs of the finish-reason mapping, in the translator and in the stream loop
\* ------------------------------------------------------------------------

\* The finish reasons of the backend that are not empty.
FinishReasons == {"length", "tool_calls", "stop", "content_filter", "function_call"}

OneToolCall ==
    [kind |-> "list",
     items |-> <<[style |-> "dict", id |-> "call_1", name |-> "get_weather",
                  arguments |-> "object"]>>]

\* What came before the chunk with the finish reason: nothing, a text delta,
\* the start of a tool call.
ChunksBefore ==
    { <<>>,
      <<TextChunk("attr", <<"Hello">>)>>,
      <<ToolChunk("attr", ToolCallDelta("attr", "call_1", "get_weather", "{\"city\":"))>> }

\* A backend answer that ends with a finish reason: as the response of the
\* non-streaming call and as the last chunk of a stream.
FinishCases ==
    [finish_reason : FinishReasons, style : {"attr", "dict"}, content : {"Hi", ""},
     tool_calls : {NoToolCalls, OneToolCall}, before : ChunksBefore]

InitFinish ==
    /\ config = DefaultConfig
    /\ request_stats = RequestStats
    /\ clock = 0
    /\ restarter = NoRestarter
    /\ monitor = NoMonitor
    /\ middleware = NoMiddleware
    /\ arg \in FinishCases
    /\ request = MessagesRequest(config, [model |-> <<"claude-3-", "Sonnet">>,
                                          stream |-> FALSE, original_model |-> NoModel])
    /\ LET start == <<MessageStart(request, 0), TextBlockStart, Ping>>
           before == IF arg.before = <<>>
                     THEN [ss |-> InitialStreamState, events |-> start]
                     ELSE ProcessChunk(InitialStreamState, start, arg.before[1])
       IN  /\ ss = before.ss
           /\ events = before.events
    /\ gen = [state |-> "open", pulls |-> Len(arg.before)]
    /\ pc = "finish"
    /\ result = NoMessage
    /\ endpoint = "/v1/messages"
    /\ body = NoRequest
    /\ temp_request = NoRequest
    /\ resolveCalls = <<>>
    /\ litellm_request = NoLitellmRequest
    /\ input_tokens = 0
    /\ backend_calls = <<>>
    /\ first_chunk = Chunk("other")
    /\ response = NoResponse

\* The non-streaming call returned the answer: convert_litellm_to_anthropic.
FinishInTranslator ==
    /\ pc = "finish"
    /\ result' = convert_litellm_to_anthropic(
                    Response(arg.style, arg.content, arg.tool_calls, arg.finish_reason),
                    request)
    /\ pc' = "finish_translated"
    /\ UNCHANGED <<request_stats, middleware, clock, restarter, monitor,
                   config, endpoint, body, request, temp_request, resolveCalls,
                   litellm_request, input_tokens, backend_calls, gen, first_chunk,
                   response, events, ss, arg>>

\* The stream delivered the chunk with the finish reason: one turn of the loop.
FinishInStream ==
    /\ pc = "finish"
    /\ gen' = [gen EXCEPT !.pulls = @ + 1]
    /\ LoopTurn(FinishChunk(arg.style, arg.finish_reason))
    /\ UNCHANGED <<request_stats, middleware, clock, restarter, monitor,
                   config, endpoint, body, request, temp_request, resolveCalls,
                   litellm_request, input_tokens, backend_calls, first_chunk, response,
                   arg, result>>

NextFinish ==
    \/ FinishInTranslator
    \/ FinishInStream
    \/ \E builder \in BuilderOutcomes : StreamFinal(builder)

SpecFinish == InitFinish /\ [][NextFinish]_vars

\* ------------------------------------------------------------------------
\* Concurrent requests through the middleware log_requests
\* ------------------------------------------------------------------------

\* The requests that may be in the server at once.
MaxRequests == 3

\* The status codes call_next returns: an answer, a rate limit, a failure.
StatusCodes == {200, 429, 500}

\* RequestStats.increment_request (lines 113-114)
increment_request(stats) ==
    [stats EXCEPT !.total_requests = stats.total_requests + 1]

\* RequestStats.increment_success (lines 116-117)
increment_success(stats) ==
    [stats EXCEPT !.successful_requests = stats.successful_requests + 1]

\* RequestStats.increment_failure (lines 119-120)
increment_failure(stats) ==
    [stats EXCEPT !.failed_requests = stats.failed_requests + 1]

\* A call of log_requests: its position, the request number its INBOUND
\* REQUEST line shows, the status code of call_next and the request number
\* its INBOUND RESPONSE line shows.
MiddlewareCall(position, inbound, status_code, outbound) ==
    [pc |-> position, inbound_number |-> inbound, status_code |-> status_code,
     outbound_number |-> outbound]

InitMiddleware ==
    /\ config = DefaultConfig
    /\ request_stats = RequestStats
    /\ clock = 0
    /\ restarter = NoRestarter
    /\ monitor = NoMonitor
    /\ middleware = [r \in 1..MaxRequests |-> MiddlewareCall("new", 0, 0, 0)]
    /\ request = NoRequest
    /\ arg = None
    /\ result = None
    /\ pc = "serving"
    /\ NoRequestRun

\* log_requests up to `await call_next(request)`: the counter is incremented
\* and read for the INBOUND REQUEST line (lines 1273-1287).
LogRequestsEnter(r) ==
    /\ middleware[r].pc = "new"
    /\ request_stats' = increment_request(request_stats)
    /\ middleware' = [middleware EXCEPT ![r] =
           MiddlewareCall("call_next", request_stats'.total_requests, 0, 0)]
    /\ UNCHANGED <<config, request, arg, result, pc, clock, restarter, monitor>>
    /\ UNCHANGED RequestRunVars

\* log_requests after call_next returned: success or failure is counted and
\* the counter is read again for the INBOUND RESPONSE line (lines 1288-1307).
LogRequestsReturn(r, status_code) ==
    /\ middleware[r].pc = "call_next"
    /\ request_stats' = IF status_code < 400 THEN increment_success(request_stats)
                                            ELSE increment_failure(request_stats)
    /\ middleware' = [middleware EXCEPT ![r] =
           MiddlewareCall("returned", middleware[r].inbound_number, status_code,
                          request_stats.total_requests)]
    /\ UNCHANGED <<config, request, arg, result, pc, clock, restarter, monitor>>
    /\ UNCHANGED RequestRunVars

NextMiddleware ==
    \/ \E r \in 1..MaxRequests : LogRequestsEnter(r)
    \/ \E r \in 1..MaxRequests, status_code \in StatusCodes : LogRequestsReturn(r, status_code)

SpecMiddleware == InitMiddleware /\ [][NextMiddleware]_vars

\* ------------------------------------------------------------------------
\* Request runs in which the caller may disconnect during the stream
\* ------------------------------------------------------------------------

\* The caller disconnects while the StreamingResponse is being sent: the
\* generator handle_streaming_with_recovery is cancelled at the await of line
\* 1038 (CancelledError) or closed at one of its yields (GeneratorExit).  Both
\* are BaseExceptions: no except clause of the generator catches them (lines
\* 1039-1041, 1170-1208, 1241, 1267 name Exception or its subclasses), there
\* is no finally clause, and streaming_with_first_chunk (lines 1380-1383) has
\* no handler either, so no statement of the handler runs afterwards.
Disconnect ==
    /\ pc \in {"stream_start", "stream_loop", "stream_final"}
    /\ pc' = "disconnected"
    /\ UNCHANGED <<request_stats, middleware, clock, restarter, monitor,
                   config, endpoint, body, request, temp_request, resolveCalls,
                   litellm_request, input_tokens, backend_calls, gen, first_chunk,
                   response, events, ss, arg, result>>

NextDisconnect == Next \/ Disconnect

SpecDisconnect == Init /\ [][NextDisconnect]_vars

\* ------------------------------------------------------------------------
\* Request runs under fair scheduling of the stream generator
\* ------------------------------------------------------------------------

\* The steps of handle_streaming_with_recovery that wait for nothing: the
\* initial events, the pull of the chunk the generator already holds, the
\* StopAsyncIteration of a finished generator, and the final events.
StepsWithoutWaiting ==
    \/ StreamStart
    \/ PullFirstChunk
    \/ (gen.state = "finished" /\ PullEnds)
    \/ \E b \in BuilderOutcomes : StreamFinal(b)

\* The event loop resumes the generator whenever it can run, and the timer of
\* asyncio.wait_for (line 1038) fires when the pull is still pending.
\* A request under the configuration of the defaults, both streaming switches
\* off.
InitStall == Init /\ config = DefaultConfig

SpecStall ==
    /\ InitStall
    /\ [][Next]_vars
    /\ WF_vars(StepsWithoutWaiting)
    /\ WF_vars(PullTimesOut)

\* ------------------------------------------------------------------------
\* Runs of the stream loop over malformed fragments
\* ------------------------------------------------------------------------

\* Fragments the detector rejects, and between them a complete string chunk
\* and a chunk object.
MalformedRunChunks ==
    { StrChunk(<<"{">>),
      StrChunk(<<" ">>),
      StrChunk(<<ChunkHead, "Hello", ChunkTail>>),
      TextChunk("attr", <<"Hello">>) }

NextMalformed ==
    \/ \E chunk \in MalformedRunChunks : Feed(chunk)
    \/ PullEnds
    \/ \E builder \in BuilderOutcomes : StreamFinal(builder)

SpecMalformed == InitReassemble /\ [][NextMalformed]_vars

\* ------------------------------------------------------------------------
\* Runs of the stream loop over tool-call deltas
\* ------------------------------------------------------------------------

\* The chunks of a stream that calls tools: the delta that opens call_1 with
\* the first part of its arguments, later deltas of call_1 with and without
\* the function name, a call without arguments, and a text chunk.
ToolCallChunks ==
    { ToolChunk("attr", ToolCallDelta("attr", "call_1", "get_weather", "{\"city\":")),
      ToolChunk("attr", ToolCallDelta("attr", "call_1", "get_weather", "\"Paris\"")),
      ToolChunk("attr", ToolCallDelta("attr", "call_1", None, "}")),
      ToolChunk("attr", ToolCallDelta("attr", "call_2", "get_time", "")),
      TextChunk("attr", <<"Hello">>) }

InitToolCalls == InitReassemble /\ arg = 0

NextToolCalls ==
    \/ \E chunk \in ToolCallChunks : Feed(chunk)
    \/ PullEnds
    \/ \E builder \in BuilderOutcomes : StreamFinal(builder)

SpecToolCalls == InitToolCalls /\ [][NextToolCalls]_vars

\* ------------------------------------------------------------------------
\* The loop body on one chunk in its two shapes
\* ------------------------------------------------------------------------

\* What a chunk carries: a text delta, tool-call deltas, a finish reason and a
\* usage snapshot, each of them or none.
ChunkData(text, deltas, finish_reason, has_usage) ==
    [text |-> text, deltas |-> deltas, finish_reason |-> finish_reason,
     has_usage |-> has_usage]

\* A tool-call delta before it has a shape.
DeltaData(id, name, arguments) == [id |-> id, name |-> name, arguments |-> arguments]

ChunkDatas ==
    { ChunkData(text, deltas, finish_reason, has_usage) :
        text \in {<<>>, <<"Hello">>},
        deltas \in { <<>>,
                     <<DeltaData("call_1", "get_weather", "{\"city\":")>>,
                     <<DeltaData("call_2", "get_time", "")>>,
                     <<DeltaData("call_1", "get_weather", "\"Paris\"}"),
                       DeltaData("call_2", "get_time", "{}")>> },
        finish_reason \in {None, "stop", "length", "tool_calls"},
        has_usage \in BOOLEAN }

\* The chunk that carries data in the shape kind: "attr", a ModelResponse
\* object whose deltas are objects, or "dict", a mapping whose deltas are
\* mappings.
ShapedChunk(kind, data) ==
    [Chunk(kind) EXCEPT
        !.has_choices = TRUE, !.has_delta = TRUE,
        !.content = data.text,
        !.tool_calls = [i \in 1..Len(data.deltas) |->
                           ToolCallDelta(kind, data.deltas[i].id, data.deltas[i].name,
                                         data.deltas[i].arguments)],
        !.finish_reason = data.finish_reason,
        !.has_usage = data.has_usage,
        !.prompt_tokens = IF data.has_usage THEN 12 ELSE 0,
        !.completion_tokens = IF data.has_usage THEN 5 ELSE 0]

\* The handler before its first chunk, and after a chunk that opened call_1.
StatesBeforeChunk ==
    LET start == [ss |-> InitialStreamState,
                  events |-> <<TextBlockStart, Ping>>, exit |-> "continue"]
    IN  { start,
          ProcessChunk(start.ss, start.events,
                       ToolChunk("attr", ToolCallDelta("attr", "call_1", "get_weather",
                                                       "{\"city\":"))) }

InitShapes ==
    /\ config = DefaultConfig
    /\ request_stats = RequestStats
    /\ clock = 0
    /\ restarter = NoRestarter
    /\ monitor = NoMonitor
    /\ middleware = NoMiddleware
    /\ arg \in ChunkDatas
    /\ request = MessagesRequest(config, [model |-> <<"claude-3-", "Sonnet">>,
                                          stream |-> TRUE, original_model |-> NoModel])
    /\ \E before \in StatesBeforeChunk :
          /\ ss = before.ss
          /\ events = <<MessageStart(request, 0)>> \o before.events
    /\ gen = [state |-> "open", pulls |-> 0]
    /\ pc = "shapes"
    /\ result = None
    /\ endpoint = "/v1/messages"
    /\ body = NoRequest
    /\ temp_request = NoRequest
    /\ resolveCalls = <<>>
    /\ litellm_request = NoLitellmRequest
    /\ input_tokens = 0
    /\ backend_calls = <<>>
    /\ first_chunk = Chunk("other")
    /\ response = NoResponse

\* The loop body runs on the chunk in each of its shapes, from the same state.
ProcessBothShapes ==
    /\ pc = "shapes"
    /\ result' = [attr |-> ProcessChunk(ss, events, ShapedChunk("attr", arg)),
                  dict |-> ProcessChunk(ss, events, ShapedChunk("dict", arg))]
    /\ pc' = "shaped"
    /\ UNCHANGED <<request_stats, middleware, clock, restarter, monitor,
                   config, endpoint, body, request, temp_request, resolveCalls,
                   litellm_request, input_tokens, backend_calls, gen, first_chunk,
                   response, events, ss, arg>>

NextShapes == ProcessBothShapes

SpecShapes == InitShapes /\ [][NextShapes]_vars

\* ------------------------------------------------------------------------
\* Runs of the stream loop over fragments that carry more than one object
\* ------------------------------------------------------------------------

\* Fragments of the backend's stream: one chunk, two chunks in one fragment,
\* a chunk followed by the long beginning of the next, parts of a long chunk,
\* and the sentinel.
BufferedRunChunks ==
    { StrChunk(<<ChunkHead, "Hello", ChunkTail>>),
      StrChunk(<<ChunkHead, "Hello", ChunkTail, ChunkHead, "world", ChunkTail>>),
      StrChunk(<<ChunkHead, "Hello", ChunkTail, ChunkHead, LongText, LongText>>),
      StrChunk(<<ChunkHead, LongText>>),
      StrChunk(<<LongText>>),
      StrChunk(<<LongText, ChunkTail>>),
      StrChunk(<<"[DONE]">>) }

NextBuffered ==
    \/ \E chunk \in BufferedRunChunks : Feed(chunk)
    \/ PullEnds
    \/ \E builder \in BuilderOutcomes : StreamFinal(builder)

SpecBuffered == InitReassemble /\ [][NextBuffered]_vars

\* ------------------------------------------------------------------------
\* health_monitor.py: AutoRestarter
\* ------------------------------------------------------------------------

\* AutoRestarter.__init__(install_dir, max_restarts = 5, restart_window = 300)
max_restarts == 5
restart_window == 300

\* A limit that lets the attempt pass when the limit is just reached.
AtOrBelowRestartLimit(recorded) == recorded <= max_restarts

\* len(self.restart_times) < self.max_restarts (line 218)
BelowRestartLimit(recorded) == recorded < max_restarts

\* can_restart at the time t: the restart times older than the window are
\* dropped (t > window_start), and the rest is counted.
can_restart(r, t) ==
    LET window_start == t - restart_window
        kept == SelectSeq(r.restart_times, LAMBDA x : x > window_start)
    IN  [restarter |-> [r EXCEPT !.restart_times = kept],
         allowed |-> BelowRestartLimit(Len(kept))]

\* record_restart at the time t
record_restart(r, t) == [r EXCEPT !.restart_times = Append(@, t)]

\* What the process calls of one run of restart_server do.  pid: "none" or
\* "pid".  stop: "terminated" (terminate and wait succeed), "killed"
\* (NoSuchProcess or TimeoutExpired, then kill) or "raises" (another
\* exception, caught by the outer except).  start: "started" or "raises".
RestartRun(pid, stop, start) == [pid |-> pid, stop |-> stop, start |-> start]

\* The calls restart_server makes after record_restart, and what it returns.
ProcessCalls(run) ==
    LET stop_ops == IF run.pid = "none" THEN <<>>
                    ELSE IF run.stop = "terminated" THEN <<"terminate">>
                    ELSE IF run.stop = "killed" THEN <<"terminate", "kill">>
                    ELSE <<"terminate">>
        stopped == run.pid = "none" \/ run.stop # "raises"
        start_ops == IF ~stopped THEN <<>>
                     ELSE IF run.start = "started" THEN <<"Popen", "write_pid_file">>
                     ELSE <<"Popen">>
    IN  [ops |-> stop_ops \o start_ops, returned |-> stopped /\ run.start = "started"]

\* restart_server(pid) at the time t (lines 224-271): the AutoRestarter after
\* the call, with the call added to calls, and the value returned.
restart_server(r, t, run) ==
    LET checked == can_restart(r, t)
        call(ops) == [time |-> t, ops |-> ops]
    IN  IF ~checked.allowed
        THEN [restarter |-> [checked.restarter EXCEPT !.calls = Append(@, call(<<>>))],
              returned |-> FALSE]
        ELSE LET recorded == record_restart(checked.restarter, t)
                 done == ProcessCalls(run)
             IN  [restarter |-> [recorded EXCEPT
                                   !.calls = Append(@, call(<<"record_restart">> \o done.ops))],
                  returned |-> done.returned]

\* The latest time of a run, and the most calls of restart_server in one.
MaxClock == 600
MaxCalls == 7

\* The seconds that pass between two calls.
ClockSteps == {100, 300}

RestarterRuns ==
    { RestartRun("none", "terminated", "started"),
      RestartRun("pid", "killed", "raises") }

InitRestarter ==
    /\ config = DefaultConfig
    /\ request_stats = RequestStats
    /\ clock = 0
    /\ restarter = NoRestarter
    /\ monitor = NoMonitor
    /\ middleware = NoMiddleware
    /\ request = NoRequest
    /\ arg = None
    /\ result = None
    /\ pc = "restarter"
    /\ NoRequestRun

\* Time passes.
ClockAdvances(seconds) ==
    /\ clock + seconds <= MaxClock
    /\ clock' = clock + seconds
    /\ UNCHANGED <<request_stats, middleware, restarter, monitor, config, request, arg,
                   result, pc>>
    /\ UNCHANGED RequestRunVars

\* await restarter.restart_server(pid)
CallRestartServer(run) ==
    /\ Len(restarter.calls) < MaxCalls
    /\ LET done == restart_server(restarter, clock, run)
       IN  /\ restarter' = done.restarter
           /\ result' = done.returned
    /\ UNCHANGED <<request_stats, middleware, clock, monitor, config, request, arg, pc>>
    /\ UNCHANGED RequestRunVars

NextRestarter ==
    \/ \E seconds \in ClockSteps : ClockAdvances(seconds)
    \/ \E run \in RestarterRuns : CallRestartServer(run)

SpecRestarter == InitRestarter /\ [][NextRestarter]_vars

\* ------------------------------------------------------------------------
\* health_monitor.py: HealthChecker and HealthMonitor
\* ------------------------------------------------------------------------

\* config reliability.health_check_interval, its default (line 290)
check_interval == 30

\* What the three checks of one cycle find.  pid: "none" (no PID file) or
\* "pid"; alive: check_process_alive; endpoint, connection: the status of
\* check_health_endpoint and check_test_connection.
HealthCheck(pid, alive, health_endpoint, test_connection) ==
    [pid |-> pid, alive |-> alive, endpoint |-> health_endpoint,
     connection |-> test_connection]

\* perform_full_health_check (lines 165-194): overall_status.
perform_full_health_check(check) ==
    LET after_process == IF check.pid # "none" /\ ~check.alive
                         THEN "unhealthy" ELSE "healthy"
        after_endpoint == IF check.endpoint # "healthy" THEN "unhealthy" ELSE after_process
    IN  IF check.connection # "healthy" THEN "degraded" ELSE after_endpoint

\* No cycle has run, or the last cycle raised before its health check.
NoCycle == [check |-> None, overall_status |-> None, restart |-> "none"]

\* HealthMonitor.__init__ (lines 277-296) and start(): running.
StartedMonitor(auto_restart_enabled, max_failures) ==
    [running |-> TRUE, auto_restart_enabled |-> auto_restart_enabled,
     max_failures |-> max_failures, consecutive_failures |-> 0,
     cycles |-> 0, last |-> NoCycle]

\* A threshold that is met only by the failure that reaches it.
ExactlyAtThreshold(failures, max_failures) == failures = max_failures

\* self.consecutive_failures >= self.max_failures (line 353)
ThresholdReached(failures, max_failures) == failures >= max_failures

\* The most cycles of the monitor loop in a run.
MaxCycles == 6

HealthChecks ==
    { HealthCheck("pid", TRUE, "healthy", "healthy"),
      HealthCheck("pid", TRUE, "healthy", "unreachable"),
      HealthCheck("pid", TRUE, "unhealthy", "healthy"),
      HealthCheck("pid", FALSE, "unreachable", "unreachable"),
      HealthCheck("none", FALSE, "healthy", "healthy") }

\* What the process calls of a restart do.
StartOutcomes == {"started", "raises"}

InitMonitor ==
    /\ config = DefaultConfig
    /\ request_stats = RequestStats
    /\ clock = 0
    /\ restarter = NoRestarter
    /\ monitor \in { StartedMonitor(enabled, max_failures) :
                       enabled \in BOOLEAN, max_failures \in {1, 3} }
    /\ middleware = NoMiddleware
    /\ request = NoRequest
    /\ arg = None
    /\ result = None
    /\ pc = "monitor_loop"
    /\ NoRequestRun

\* One cycle of monitor_loop (lines 334-370): the health check, the counter,
\* the restart when the threshold is reached, and the sleep.
MonitorCycle(check, start) ==
    /\ monitor.running
    /\ monitor.cycles < MaxCycles
    /\ LET overall_status == perform_full_health_check(check)
           failures == monitor.consecutive_failures + 1
           attempt == /\ overall_status # "healthy"
                      /\ monitor.auto_restart_enabled
                      /\ ThresholdReached(failures, monitor.max_failures)
           done == restart_server(restarter, clock, RestartRun(check.pid, "terminated", start))
       IN  /\ restarter' = IF attempt THEN done.restarter ELSE restarter
           /\ monitor' = [monitor EXCEPT
                 !.consecutive_failures =
                     IF overall_status = "healthy" THEN 0
                     ELSE IF attempt /\ done.returned THEN 0
                     ELSE failures,
                 !.cycles = @ + 1,
                 !.last = [check |-> check, overall_status |-> overall_status,
                           restart |-> IF ~attempt THEN "none"
                                       ELSE IF done.returned THEN "succeeded"
                                       ELSE "failed"]]
    /\ clock' = clock + check_interval
    /\ UNCHANGED <<request_stats, middleware, config, request, arg, result, pc>>
    /\ UNCHANGED RequestRunVars

\* A cycle that raises before its health check (record_system_metrics,
\* get_current_pid): the exception is logged, the loop sleeps.
MonitorCycleRaises ==
    /\ monitor.running
    /\ monitor.cycles < MaxCycles
    /\ monitor' = [monitor EXCEPT !.cycles = @ + 1, !.last = NoCycle]
    /\ clock' = clock + check_interval
    /\ UNCHANGED <<request_stats, middleware, restarter, config, request, arg, result, pc>>
    /\ UNCHANGED RequestRunVars

NextMonitor ==
    \/ \E check \in HealthChecks : \E start \in StartOutcomes : MonitorCycle(check, start)
    \/ MonitorCycleRaises

SpecMonitor == InitMonitor /\ [][NextMonitor]_vars

\* ------------------------------------------------------------------------
\* Properties
\* ------------------------------------------------------------------------

IsToolStart(e) == e.type = "content_block_start" /\ e.block = "tool_use"

IsStopOf(e, index) == e.type = "content_block_stop" /\ e.index = index

\* The backend calls that failed with a rate-limit / quota signature.
RateLimitFailure(c) == c.failed /\ IsRateLimitSignature(c.error)

\* C1: at every point of a run of handle_streaming_with_recovery the events
\* yielded so far are a prefix of: message_start, content_block_start of the
\* text block 0, ping, any number of content_block_delta and tool_use
\* content_block_start events, content_block_stop of block 0 and of each
\* opened tool block, one message_delta, one message_stop.  Nothing follows
\* message_stop, and no delta or start follows a content_block_stop.
C1_EventsArePrefixOfPattern ==
    LET n == Len(events)
    IN  /\ n >= 1 => events[1].type = "message_start"
        /\ n >= 2 => events[2] = TextBlockStart
        /\ n >= 3 => events[3].type = "ping"
        /\ \A i \in 4..n :
              \/ events[i].type \in {"content_block_delta", "content_block_stop",
                                     "message_delta", "message_stop"}
              \/ IsToolStart(events[i])
        /\ \A i \in 1..n : \A j \in (i + 1)..n :
              /\ events[i].type = "content_block_stop" =>
                    /\ events[j].type \in {"content_block_stop", "message_delta",
                                           "message_stop"}
                    /\ events[j].type = "content_block_stop" =>
                          events[j].index # events[i].index
              /\ events[i].type = "message_delta" => events[j].type = "message_stop"
              /\ events[i].type # "message_stop"
        /\ \A i \in 1..n :
              /\ events[i].type = "content_block_stop" =>
                    \/ /\ events[i].index = text_block_index
                       /\ \A k \in 1..(i - 1) : events[k].type # "content_block_stop"
                    \/ /\ \E k \in 1..(i - 1) :
                             IsToolStart(events[k]) /\ events[k].index = events[i].index
                       /\ \E k \in 1..(i - 1) : IsStopOf(events[k], text_block_index)
              /\ events[i].type = "message_delta" =>
                    \A k \in 1..(i - 1) :
                        events[k].type = "content_block_start" =>
                            \E m \in 1..(i - 1) : IsStopOf(events[m], events[k].index)
              /\ events[i].type = "message_stop" =>
                    i > 1 /\ events[i - 1].type = "message_delta"

\* A stream with a text delta and a tool block has run to its message_stop.
C1_Witness ==
    /\ pc = "done"
    /\ Len(events) > 0
    /\ events[Len(events)].type = "message_stop"
    /\ \E i \in 1..Len(events) : IsToolStart(events[i])
    /\ \E i \in 1..Len(events) : events[i].delta = "text_delta"
    /\ \E i \in 1..Len(events) : events[i].delta = "input_json_delta"

\* C2: when a pull of the stream loop raises an error with a rate-limit / quota
\* signature, the handler's run ends there with the categorized HTTPException:
\* it yields no further event and does not go on to its final events.
C2_RateLimitInLoopEndsTheStream ==
    \A i \in 1..Len(backend_calls) :
        (backend_calls[i].op = "anext" /\ RateLimitFailure(backend_calls[i])) =>
            /\ Len(events) = backend_calls[i].events_before
            /\ pc # "stream_final"

\* A pull of the stream loop raised a rate-limit error and the handler then
\* yielded its final events.
C2_Witness ==
    /\ pc = "done"
    /\ \E i \in 1..Len(backend_calls) :
          /\ backend_calls[i].op = "anext"
          /\ RateLimitFailure(backend_calls[i])
          /\ backend_calls[i].error.cls = "RateLimitError"
          /\ Len(events) > backend_calls[i].events_before

\* C3: when the streaming backend call or the pull of the first chunk fails
\* with a rate-limit / quota error E, the answer of create_message is exactly
\* what handle_quota_rate_limit_error computes for E.
C3_AnswerIsTheClassifiedError ==
    pc = "done" =>
        \A i \in 1..Len(backend_calls) :
            (/\ backend_calls[i].op \in {"acompletion", "first"}
             /\ backend_calls[i].stream
             /\ RateLimitFailure(backend_calls[i])) =>
                response =
                    ErrorResponse(handle_quota_rate_limit_error(backend_calls[i].error.text))

\* The pull of the first chunk failed with the per-minute rate limit and the
\* request is answered.
C3_Witness ==
    /\ pc = "done"
    /\ \E i \in 1..Len(backend_calls) :
          backend_calls[i].op = "first" /\ backend_calls[i].error = RateLimitedError

\* C5: after a backend call of a request failed with a rate-limit / quota
\* error (the initial call, the first chunk, the non-streaming call) no further
\* completion call is made for it, and the answer is the error.
C5_NoCallAfterRateLimit ==
    \A i \in 1..Len(backend_calls) :
        (backend_calls[i].op \in {"acompletion", "first"} /\ RateLimitFailure(backend_calls[i])) =>
            /\ \A j \in (i + 1)..Len(backend_calls) : backend_calls[j].op # "acompletion"
            /\ pc = "done" => response.kind = "http_error"

\* The pull of the first chunk failed with a rate-limit error and a
\* non-streaming call followed.
C5_Witness ==
    \E i \in 1..Len(backend_calls) : \E j \in (i + 1)..Len(backend_calls) :
        /\ backend_calls[i].op = "first"
        /\ RateLimitFailure(backend_calls[i])
        /\ backend_calls[j].op = "acompletion"

\* C7: for a request to /v1/messages whose model is an alias (the resolved id
\* differs from it), the model of the response, in the MessagesResponse and in
\* the message_start event, is the string the caller sent.
C7_ResponseEchoesCallerModel ==
    (endpoint = "messages" /\ request.model # body.model) =>
        /\ response.kind = "message" => response.message.model = body.model
        /\ Len(events) >= 1 => events[1].model = body.model

\* An alias request was answered, with a MessagesResponse or a message_start.
C7_Witness ==
    /\ endpoint = "messages"
    /\ request.model # body.model
    /\ body.original_model = NoModel
    /\ response.kind = "message" \/ Len(events) >= 1

\* C10: for a request to /v1/messages or /v1/messages/count_tokens the
\* resolver is applied exactly once, to the caller's model string, and the
\* request holds original_model = that string and model = the resolved id.
C10_ResolvedOnceBothKept ==
    pc # "idle" =>
        /\ resolveCalls = <<body.model>>
        /\ request.original_model = body.model
        /\ request.model = validate_and_map_model(config, body.model)[1]

\* A count_tokens request was answered.
C10_Witness ==
    /\ endpoint = "count_tokens"
    /\ pc = "done"
    /\ Len(resolveCalls) = 2

C9_ResolutionIsIdempotent ==
    pc = "resolved_again" => result[2][1] = result[1][1]

\* An alias was resolved to the big model, and that id was resolved again.
C9_Witness ==
    /\ pc = "resolved_again"
    /\ arg = <<"Sonnet">>
    /\ config.big_model = <<"big-", "haiku">>
    /\ config.small_model = DefaultSmallModel
    /\ result[1][1] = <<"gemini/", "big-", "haiku">>
    /\ result[2][1] = <<"gemini/">> \o DefaultSmallModel

NormalPathFails(r) ==
    \/ /\ r.style = "attr" /\ r.usage # "missing" /\ r.n_choices > 0
       /\ (r.message = "missing" \/ r.finish_reason = "missing")
    \/ /\ r.style = "dict"
       /\ ((r.n_choices > 0 /\ r.message = None) \/ r.usage = None)
    \/ /\ \/ r.style = "attr" /\ r.usage # "missing"
          \/ r.style = "dict"
       /\ \/ r.n_choices > 0 /\ r.message = "ok" /\ r.content = "not_a_string"
          \/ r.id = None
          \/ r.usage = "null_tokens"

\* C6: convert_litellm_to_anthropic returns, for every backend response, a
\* response whose content has at least one block; when the normal path fails
\* it is the degraded response: one Text block, stop_reason error, zero usage.
C6_TranslatorIsTotal ==
    pc = "converted" =>
        /\ Len(result.content) >= 1
        /\ \A i \in 1..Len(result.content) : result.content[i].type \in {"text", "tool_use"}
        /\ NormalPathFails(arg) =>
              /\ result.content = <<TextBlock("Response conversion error")>>
              /\ result.stop_reason = "error"
              /\ result.input_tokens = 0 /\ result.output_tokens = 0
        /\ ~NormalPathFails(arg) => result.stop_reason # "error"

\* A response with no text and no usable tool call was translated: the empty
\* Text block stands in.
C6_Witness ==
    /\ pc = "converted"
    /\ arg.n_choices = 0
    /\ ~NormalPathFails(arg)
    /\ result.content = <<TextBlock("")>>

\* The case of C11: a user message whose blocks are one or more Text blocks
\* followed by one ToolResult block.
IsTextThenToolResult(msg) ==
    /\ msg.role = "user" /\ msg.kind = "blocks"
    /\ Len(msg.blocks) >= 2
    /\ msg.blocks[Len(msg.blocks)].type = "tool_result"
    /\ \A i \in 1..(Len(msg.blocks) - 1) : msg.blocks[i].type = "text"

PrecedingTexts(msg) == [i \in 1..(Len(msg.blocks) - 1) |-> msg.blocks[i].text]

\* C11: a user message of Text blocks followed by one ToolResult block becomes
\* exactly two backend messages, in this order: a user message holding the
\* preceding text (as it stands, or with the surrounding whitespace taken off),
\* then a tool message keyed by the tool_use_id holding the normalized content.
C11_TextThenToolResultSplits ==
    (pc = "translated" /\ IsTextThenToolResult(arg)) =>
        LET tool_result == arg.blocks[Len(arg.blocks)]
            text == Join(PrecedingTexts(arg))
        IN /\ Len(result) = 2
           /\ result[1].role = "user"
           /\ result[1].content \in {StrContent(text), StrContent(Strip(text))}
           /\ result[2] = ToolMessage(tool_result.tool_use_id,
                                      parse_tool_result_content(tool_result.content))

\* A blank Text block followed by a ToolResult block was translated: the user
\* message that precedes the tool message holds an empty list of parts.
C11_Witness ==
    /\ pc = "translated"
    /\ IsTextThenToolResult(arg)
    /\ arg.blocks[1].text = <<" ">>
    /\ Len(result) = 2
    /\ result[1] = LitellmMessage("user", PartsContent(<<>>))
    /\ result[2].role = "tool"

\* The text of the text_delta events, in the order of the events.
RECURSIVE TextDeltasOf(_)
TextDeltasOf(evs) ==
    IF evs = <<>> THEN <<>>
    ELSE (IF Head(evs).delta = "text_delta" THEN <<Head(evs).text>> ELSE <<>>)
            \o TextDeltasOf(Tail(evs))

\* A string fragment the malformed-fragment detector rejects.
IsRejectedFragment(c) ==
    c.kind = "str" /\ Strip(c.str) # <<"[DONE]">> /\ is_malformed_chunk(c.str)

\* The text delta a well-formed complete chunk carries: an object with a
\* choice and a delta, or a string that is the whole JSON text of one.
ChunkText(c) ==
    IF c.kind = "str" THEN JsonLoads(c.str).text ELSE c.content

IsWellFormedTextChunk(c) ==
    /\ ~IsRejectedFragment(c)
    /\ \/ c.kind \in {"attr", "dict"} /\ c.has_choices /\ c.has_delta
       \/ c.kind = "str" /\ JsonLoads(c.str).valid /\ JsonLoads(c.str).has_choices
    /\ ChunkText(c) # <<>>
    /\ (IF c.kind = "str" THEN JsonLoads(c.str).finish_reason ELSE c.finish_reason) = None

RECURSIVE TextsOfWellFormed(_)
TextsOfWellFormed(chunks) ==
    IF chunks = <<>> THEN <<>>
    ELSE (IF IsWellFormedTextChunk(Head(chunks)) THEN <<ChunkText(Head(chunks))>> ELSE <<>>)
            \o TextsOfWellFormed(Tail(chunks))

NumRejected(chunks) == Len(SelectSeq(chunks, IsRejectedFragment))

\* The streams of C12: every fragment so far is either rejected by the
\* detector or a well-formed complete chunk, and at most 20 are rejected.
IsMalformedInterleaving(chunks) ==
    /\ \A i \in 1..Len(chunks) :
          IsRejectedFragment(chunks[i]) \/ IsWellFormedTextChunk(chunks[i])
    /\ NumRejected(chunks) <= max_malformed_chunks

\* C12: in a stream of rejected fragments (at most 20) interleaved with
\* well-formed complete chunks, the text deltas emitted are those of the
\* well-formed chunks, once each and in arrival order, the malformed counter
\* equals the number of rejected fragments, and the stream is not terminated
\* early.
C12_MalformedFragmentsAreSkipped ==
    IsMalformedInterleaving(ss.all_chunks) =>
        /\ TextDeltasOf(events) = TextsOfWellFormed(ss.all_chunks)
        /\ ss.malformed_chunks_count = NumRejected(ss.all_chunks)
        /\ ~ss.stream_terminated_early

\* Twenty fragments were rejected and a complete chunk whose text holds a
\* brace arrived as a string: the stream goes on, the chunk's text was not
\* emitted.
C12_Witness ==
    /\ pc = "stream_loop"
    /\ IsMalformedInterleaving(ss.all_chunks)
    /\ ss.malformed_chunks_count = max_malformed_chunks
    /\ ss.all_chunks[Len(ss.all_chunks)] = StrChunk(<<ChunkHead, "{", ChunkTail>>)
    /\ TextDeltasOf(events) = <<>>
    /\ ~ss.stream_terminated_early

\* The case of C13: the two fragments that arrived are the two parts of one
\* valid JSON chunk carrying a text delta.
IsSplitChunk(f1, f2) ==
    /\ f1.kind = "str" /\ f2.kind = "str"
    /\ f1.str # <<>> /\ f2.str # <<>>
    /\ JsonLoads(f1.str \o f2.str).valid
    /\ JsonLoads(f1.str \o f2.str).has_choices
    /\ JsonLoads(f1.str \o f2.str).text # <<>>

SplitChunkArrived ==
    /\ Len(ss.all_chunks) = arg + 2
    /\ IsSplitChunk(ss.all_chunks[arg + 1], ss.all_chunks[arg + 2])

\* C13: when one valid JSON chunk with a text delta arrives split, at any
\* position, across two consecutive string fragments, exactly one text_delta
\* event is emitted and its text is the whole text of the chunk.
C13_SplitChunkIsReassembled ==
    SplitChunkArrived =>
        TextDeltasOf(events)
            = <<JsonLoads(ss.all_chunks[arg + 1].str \o ss.all_chunks[arg + 2].str).text>>

\* A chunk arrived split just before its closing braces: the first part is in
\* the buffer, the second part was rejected as malformed, no text was emitted.
C13_Witness ==
    /\ SplitChunkArrived
    /\ ss.all_chunks[arg + 1] = StrChunk(<<ChunkHead, "Hello">>)
    /\ ss.all_chunks[arg + 2] = StrChunk(<<ChunkTail>>)
    /\ ss.chunk_buffer = <<ChunkHead, "Hello">>
    /\ ss.malformed_chunks_count = arg + 1
    /\ TextDeltasOf(events) = <<>>

\* The whole seconds of a retryDelay value.
SecondsOfDelay(delay) ==
    CASE delay = <<"2", "5", "s">> -> 25
      [] delay = <<"1", "2", "0", "s">> -> 120
      [] delay = <<"7", "s">> -> 7
      [] delay = <<"0", ".", "5", "s">> -> 0
      [] delay = <<"4", "2", "9", "s">> -> 429

\* The error text carries a retry delay: its payload has a RetryInfo entry
\* with a retryDelay.
CarriesRetryDelay(text) ==
    /\ text.payload.form # "none"
    /\ text.payload.has_retry_info
    /\ text.payload.retry_delay # <<>>

\* C14: extract_retry_delay returns the whole seconds of the RetryInfo entry's
\* retryDelay when the error text carries one, whether the payload is plain
\* JSON or stands in a b'{...}' wrapper with or without escaped newlines, and
\* 60 when the error text carries no retry delay.
C14_RetryDelayExtraction ==
    pc = "extracted" =>
        IF CarriesRetryDelay(arg.text)
        THEN result = SecondsOfDelay(arg.text.payload.retry_delay)
        ELSE result = 60

\* The delay of 25 seconds was taken from a payload whose line breaks are
\* written \n, which json.loads refuses.
C14_Witness ==
    /\ pc = "extracted"
    /\ arg.text.payload.form = "bytes_nl"
    /\ arg.text.payload.retry_delay = <<"2", "5", "s">>
    /\ result = 25

\* No mapping of the value, at any depth, has the key.
RECURSIVE NoKeyAnywhere(_, _)
NoKeyAnywhere(node, key) ==
    /\ \A i \in 1..Len(node.entries) :
          node.entries[i].key # key /\ NoKeyAnywhere(node.entries[i].value, key)
    /\ \A i \in 1..Len(node.items) : NoKeyAnywhere(node.items[i], key)

\* A mapping whose type is string and whose format is not enum or date-time.
HasUnsupportedFormat(node) ==
    /\ node.kind = "dict"
    /\ \E i \in 1..Len(node.entries) :
          node.entries[i].key = "type" /\ node.entries[i].value = Scalar("string")
    /\ \E i \in 1..Len(node.entries) :
          /\ node.entries[i].key = "format"
          /\ node.entries[i].value \notin {Scalar("enum"), Scalar("date-time")}

RECURSIVE NoUnsupportedFormatAnywhere(_)
NoUnsupportedFormatAnywhere(node) ==
    /\ ~HasUnsupportedFormat(node)
    /\ \A i \in 1..Len(node.entries) : NoUnsupportedFormatAnywhere(node.entries[i].value)
    /\ \A i \in 1..Len(node.items) : NoUnsupportedFormatAnywhere(node.items[i])

\* The entry of a mapping that the cleaning is to remove.
IsUnsupportedEntry(node, i) ==
    \/ node.entries[i].key \in {"additionalProperties", "default"}
    \/ node.entries[i].key = "format" /\ HasUnsupportedFormat(node)

\* cleaned is original with the unsupported entries left out, at every depth,
\* and everything else as it was and in the same order.
RECURSIVE OnlyUnsupportedRemoved(_, _)
OnlyUnsupportedRemoved(original, cleaned) ==
    /\ cleaned.kind = original.kind
    /\ cleaned.value = original.value
    /\ Len(cleaned.items) = Len(original.items)
    /\ \A i \in 1..Len(original.items) :
          OnlyUnsupportedRemoved(original.items[i], cleaned.items[i])
    /\ LET kept == SelectSeq([i \in 1..Len(original.entries) |-> i],
                             LAMBDA i : ~IsUnsupportedEntry(original, i))
       IN  /\ Len(cleaned.entries) = Len(kept)
           /\ \A j \in 1..Len(kept) :
                 /\ cleaned.entries[j].key = original.entries[kept[j]].key
                 /\ OnlyUnsupportedRemoved(original.entries[kept[j]].value,
                                           cleaned.entries[j].value)

\* C15: after clean_gemini_schema(s) no mapping at any depth, those inside
\* lists included, has a key additionalProperties or default, no mapping of
\* type string has a format other than enum or date-time, and every other key
\* and value of s is unchanged.
C15_SchemaIsCleaned ==
    pc = "cleaned" =>
        /\ NoKeyAnywhere(result, "additionalProperties")
        /\ NoKeyAnywhere(result, "default")
        /\ NoUnsupportedFormatAnywhere(result)
        /\ OnlyUnsupportedRemoved(arg, result)

\* A schema was cleaned that holds, inside a list of alternatives, a string
\* with a default and the format uri: both are gone, its type is kept.
C15_Witness ==
    /\ pc = "cleaned"
    /\ arg = Mapping(<<Entry("anyOf",
                List(<<Mapping(<<Entry("type", Scalar("string")),
                                 Entry("format", Scalar("uri")),
                                 Entry("default", Scalar("x"))>>),
                       Mapping(<<Entry("type", Scalar("null"))>>)>>))>>)
    /\ result = Mapping(<<Entry("anyOf",
                List(<<Mapping(<<Entry("type", Scalar("string"))>>),
                       Mapping(<<Entry("type", Scalar("null"))>>)>>))>>)

\* The stop reason of a finish reason.
StopReasonOf(finish_reason) ==
    CASE finish_reason = "length" -> "max_tokens"
      [] finish_reason = "tool_calls" -> "tool_use"
      [] finish_reason = "stop" -> "end_turn"
      [] OTHER -> "end_turn"

\* C16: in the non-streaming translator and in the stream loop alike a finish
\* reason maps to the stop reason by length -> max_tokens, tool_calls ->
\* tool_use, stop -> end_turn, any other non-empty value -> end_turn, whatever
\* the text, the tool calls, the style of the answer and what was streamed
\* before.
C16_FinishReasonMapping ==
    /\ pc = "finish_translated" => result.stop_reason = StopReasonOf(arg.finish_reason)
    /\ pc \in {"stream_final", "done"} =>
          /\ ss.final_stop_reason = StopReasonOf(arg.finish_reason)
          /\ \A i \in 1..Len(events) :
                events[i].type = "message_delta" =>
                    events[i].stop_reason = StopReasonOf(arg.finish_reason)

\* A stream that had started a tool call ended with finish reason stop: its
\* message_delta says end_turn.
C16_Witness ==
    /\ pc = "done"
    /\ arg.finish_reason = "stop"
    /\ \E i \in 1..Len(events) : IsToolStart(events[i])
    /\ \E i \in 1..Len(events) :
          events[i].type = "message_delta" /\ events[i].stop_reason = "end_turn"

\* C17: when force_disable_streaming or emergency_disable_streaming is set,
\* then for every request to /v1/messages, whatever its stream flag, the
\* backend request has stream = false, no streaming backend call is made and
\* the answer is a JSON response, not an event stream.
C17_SwitchesDisableStreaming ==
    (endpoint = "messages"
     /\ (config.force_disable_streaming \/ config.emergency_disable_streaming)) =>
        /\ pc \notin {"idle", "create_message"} => ~litellm_request.stream
        /\ \A i \in 1..Len(backend_calls) :
              ~backend_calls[i].stream /\ backend_calls[i].op = "acompletion"
        /\ pc = "done" => response.kind \in {"message", "http_error"}
        /\ events = <<>>

\* A request that asked for a stream was answered with a message, by one
\* non-streaming backend call, because force_disable_streaming is set.
C17_Witness ==
    /\ pc = "done"
    /\ endpoint = "messages"
    /\ config.force_disable_streaming /\ ~config.emergency_disable_streaming
    /\ body.stream
    /\ response.kind = "message"
    /\ Len(backend_calls) = 1
    /\ ~backend_calls[1].stream

\* C18: concurrent requests share no mutable state: nothing written while
\* handling one request is read while handling another, so the request
\* number a request reads for its response line is the one it read on
\* arrival.
C18_NoSharedMutableState ==
    \A r \in DOMAIN middleware :
        middleware[r].pc = "returned" =>
            middleware[r].outbound_number = middleware[r].inbound_number

\* Two requests are inside the middleware at the same time.
C18_Witness ==
    \E r1, r2 \in DOMAIN middleware :
        /\ r1 # r2
        /\ middleware[r1].pc = "call_next"
        /\ middleware[r2].pc = "call_next"

\* C19: once the caller has disconnected during a stream, no further pull
\* is issued to the backend stream, and the last thing done to the backend
\* stream is closing it.
C19_DisconnectStopsPullsAndCloses ==
    /\ [][pc = "disconnected" => backend_calls' = backend_calls]_vars
    /\ [](pc = "disconnected" =>
             backend_calls[Len(backend_calls)].op = "aclose")

\* The caller disconnected in the middle of a stream: the backend stream is
\* open, a chunk was pulled from it and text was sent.
C19_Witness ==
    /\ pc = "disconnected"
    /\ gen.state = "open"
    /\ gen.pulls > 0
    /\ Len(events) > 3

\* The events end with message_delta carrying stop_reason 'error' and
\* message_stop, or stream_chunk_builder raised and no message_delta was sent.
EndsInErrorStop(evs) ==
    \/ /\ Len(evs) >= 2
       /\ evs[Len(evs)] = MessageStop
       /\ evs[Len(evs) - 1].type = "message_delta"
       /\ evs[Len(evs) - 1].stop_reason = "error"
    \/ \A i \in 1..Len(evs) : evs[i].type \notin {"message_delta", "message_stop"}

RECURSIVE NumMalformed(_)
NumMalformed(chunks) ==
    IF chunks = <<>> THEN 0
    ELSE (IF Head(chunks).kind = "str" /\ is_malformed_chunk(Head(chunks).str)
          THEN 1 ELSE 0) + NumMalformed(Tail(chunks))

\* C21: the stream is terminated early for malformed fragments exactly when
\* the 21st malformed fragment of the stream has been received, whatever lies
\* between the malformed fragments; from then on nothing is pulled and the
\* message_delta says 'error'; with 20 or fewer the stream is not terminated
\* early and its message_delta does not say 'error'.
C21_MalformedThreshold ==
    /\ [](/\ ss.malformed_chunks_count = NumMalformed(ss.all_chunks)
          /\ ss.stream_terminated_early <=> NumMalformed(ss.all_chunks) > 20
          /\ NumMalformed(ss.all_chunks) <= 21
          /\ ss.stream_terminated_early => pc \in {"stream_final", "done"}
          /\ \A i \in 1..Len(events) :
                events[i].type = "message_delta" =>
                    (events[i].stop_reason = "error" <=> ss.stream_terminated_early))
    /\ [][ss.stream_terminated_early => gen' = gen]_vars

\* The 21st malformed fragment came after a well-formed chunk that was
\* processed in between, and the stream ended with stop_reason 'error'.
C21_Witness ==
    /\ pc = "done"
    /\ ss.malformed_chunks_count = 21
    /\ ss.stream_terminated_early
    /\ ss.accumulated_text # <<>>
    /\ ~is_malformed_chunk(ss.all_chunks[Len(ss.all_chunks) - 1].str)
    /\ events[Len(events)] = MessageStop
    /\ events[Len(events) - 1].stop_reason = "error"

\* The exception classes the loop counts: JSON parsing errors, the malformed
\* chunk error of the protocol, and unexpected errors that are not rate limits.
IsCountedError(e) ==
    \/ e.cls \in {"JSONDecodeError", "ValueError"}
    \/ /\ e.cls \in {"APIConnectionError", "RuntimeError"}
       /\ TextContains(e.text, "Error parsing chunk")
       /\ TextContains(e.text, "Expecting property name enclosed in double quotes")
    \/ /\ e.cls \notin {"JSONDecodeError", "ValueError", "APIConnectionError", "RuntimeError"}
       /\ ~IsRateLimitSignature(e)

\* The step is a turn of the loop in which the pull raised e.
PullRaised(e) == PullRaises(e)

\* The step is a turn of the loop in which the body raised for the chunk pulled.
BodyRaised ==
    \/ \E c \in StreamChunks : PullChunk(c) /\ ProcessChunk(ss, events, c).exit = "raise"
    \/ PullFirstChunk /\ ProcessChunk(ss, events, first_chunk).exit = "raise"

IsPrefixOf(a, b) == Len(a) <= Len(b) /\ SubSeq(b, 1, Len(a)) = a

BodyRaisesFor(c) ==
    /\ c.kind \in {"attr", "dict"}
    /\ c.has_choices /\ c.has_delta
    /\ \E i \in 1..Len(c.tool_calls) :
          /\ c.tool_calls[i].style = "attr"
          /\ c.tool_calls[i].name \notin {None, ""}
          /\ c.tool_calls[i].id = "missing"

\* The number of chunks at the end of chunks for which the loop body raises.
RECURSIVE TrailingFailures(_)
TrailingFailures(chunks) ==
    IF chunks = <<>> \/ ~BodyRaisesFor(chunks[Len(chunks)]) THEN 0
    ELSE 1 + TrailingFailures(SubSeq(chunks, 1, Len(chunks) - 1))

\* C23: in a stream whose pulls all succeed, the counter of consecutive errors
\* is the number of loop iterations in a row that failed while processing
\* their chunk, so that it reaches the cap when every iteration fails.
C23_CounterCountsFailingIterations ==
    (/\ pc = "stream_loop"
     /\ \A i \in 1..Len(backend_calls) : ~backend_calls[i].failed) =>
        ss.consecutive_errors = TrailingFailures(ss.all_chunks)

\* Two iterations in a row failed while processing their chunk.
C23_Witness ==
    /\ pc = "stream_loop"
    /\ \A i \in 1..Len(backend_calls) : ~backend_calls[i].failed
    /\ TrailingFailures(ss.all_chunks) >= 2

\* C24: the message_delta of a stream says 'error' exactly when the stream
\* was terminated early, and a stream whose pull raised an exception the loop
\* does not tolerate (an API error other than the malformed-chunk error, or a
\* rate-limit error, which the clause around the loop catches) was terminated
\* early.
C24_ErrorStopReasonIffTerminatedEarly ==
    /\ \A i \in 1..Len(events) :
          events[i].type = "message_delta" =>
              /\ events[i].stop_reason = "error" <=> ss.stream_terminated_early
              /\ events[i].stop_reason \in {"error", "end_turn", "max_tokens", "tool_use"}
    /\ (\E i \in 1..Len(backend_calls) :
           /\ backend_calls[i].op = "anext"
           /\ backend_calls[i].failed
           /\ ~IsCountedError(backend_calls[i].error)) =>
          (ss.stream_terminated_early /\ pc \in {"stream_final", "done"})

\* A rate-limit error in the loop after streamed text: the stream ended with
\* message_delta 'error'.
C24_Witness ==
    /\ pc = "done"
    /\ ss.stream_terminated_early
    /\ ss.accumulated_text # <<>>
    /\ \E i \in 1..Len(backend_calls) :
          /\ backend_calls[i].op = "anext"
          /\ backend_calls[i].failed
          /\ backend_calls[i].error.cls = "RateLimitError"
    /\ \E i \in 1..Len(events) :
          events[i].type = "message_delta" /\ events[i].stop_reason = "error"

\* The number of events of the type among evs.
NumEvents(evs, type) == Cardinality({i \in 1..Len(evs) : evs[i].type = type})

\* C25: a stream that has ended has one content_block_stop for every block it
\* opened, then exactly one message_delta and exactly one message_stop, which
\* is its last event, whatever stream_chunk_builder did.
C25_StreamEndsWithMessageStop ==
    (pc = "done" /\ response.kind = "stream") =>
        /\ NumEvents(events, "content_block_stop") = NumEvents(events, "content_block_start")
        /\ NumEvents(events, "message_delta") = 1
        /\ NumEvents(events, "message_stop") = 1
        /\ events[Len(events)] = MessageStop
        /\ events[Len(events) - 1].type = "message_delta"

\* A stream has ended after stream_chunk_builder raised: its last event is a
\* content_block_stop.
C25_Witness ==
    /\ pc = "done"
    /\ response.kind = "stream"
    /\ ss.accumulated_text # <<>>
    /\ events[Len(events)].type = "content_block_stop"

IsInputJsonDelta(e) == e.type = "content_block_delta" /\ e.delta = "input_json_delta"

\* The positions in evs of the tool block starts, in order.
ToolStartPositions(evs) == {p \in 1..Len(evs) : IsToolStart(evs[p])}

\* C26: the k-th tool-call id the stream shows gets block index k, and keeps
\* it; its block is started exactly once, with that id, before any of its
\* input_json_delta events, and when the stream has ended it is stopped
\* exactly once, after them; index 0 belongs to the text block alone.
C26_ToolBlockIndices ==
    /\ [](LET calls == ss.current_tool_calls
              starts == ToolStartPositions(events)
          IN  /\ ss.tool_block_counter = Len(calls)
              /\ \A k \in 1..Len(calls) : calls[k].index = k
              /\ \A j, k \in 1..Len(calls) : calls[j].id = calls[k].id => j = k
              /\ Cardinality(starts) = Len(calls)
              /\ \A p \in starts :
                    /\ events[p].index = Cardinality({q \in starts : q <= p})
                    /\ events[p].id = calls[events[p].index].id
              /\ \A p \in 1..Len(events) :
                    IsInputJsonDelta(events[p]) =>
                        /\ events[p].index \in 1..Len(calls)
                        /\ \E q \in starts : q < p /\ events[q].index = events[p].index
              /\ \A p \in 1..Len(events) :
                    events[p].index = 0 =>
                        \/ events[p] = TextBlockStart
                        \/ (events[p].type = "content_block_delta"
                            /\ events[p].delta = "text_delta")
                        \/ events[p] = BlockStop(0)
              /\ (pc = "done" /\ response.kind = "stream") =>
                    \A k \in 1..Len(calls) :
                        /\ Cardinality({p \in 1..Len(events) : IsStopOf(events[p], k)}) = 1
                        /\ \A p, q \in 1..Len(events) :
                              (IsStopOf(events[p], k) /\ IsInputJsonDelta(events[q])
                                  /\ events[q].index = k) => q < p)
    /\ [][\A k \in 1..Len(ss.current_tool_calls) :
              /\ k <= Len(ss'.current_tool_calls)
              /\ ss'.current_tool_calls[k].id = ss.current_tool_calls[k].id
              /\ ss'.current_tool_calls[k].index = ss.current_tool_calls[k].index]_vars

\* A stream with two tool calls has ended: blocks 1 and 2 were started in the
\* order the ids were seen, block 1 got an input_json_delta, both were stopped.
C26_Witness ==
    /\ pc = "done"
    /\ response.kind = "stream"
    /\ Len(ss.current_tool_calls) = 2
    /\ \E p \in 1..Len(events) : IsInputJsonDelta(events[p]) /\ events[p].index = 1
    /\ \E p \in 1..Len(events) : IsStopOf(events[p], 2)

\* The tool-call deltas of the chunks, in the order the backend sent them.
RECURSIVE DeltasOf(_)
DeltasOf(chunks) ==
    IF chunks = <<>> THEN <<>>
    ELSE (IF Head(chunks).kind \in {"attr", "dict"} /\ Head(chunks).has_delta
          THEN Head(chunks).tool_calls ELSE <<>>) \o DeltasOf(Tail(chunks))

\* The argument fragments among deltas for the call id, from the delta that
\* starts its block (the first with a function name) on.
RECURSIVE SentArguments(_, _, _)
SentArguments(deltas, id, started) ==
    IF deltas = <<>> THEN <<>>
    ELSE LET d == Head(deltas)
             mine == d.id = id
             now == started \/ (mine /\ d.name \notin {None, ""})
         IN  (IF mine /\ now /\ d.arguments # "" THEN <<d.arguments>> ELSE <<>>)
             \o SentArguments(Tail(deltas), id, now)

\* The partial_json fragments of the input_json_delta events at the index.
RECURSIVE EmittedArguments(_, _)
EmittedArguments(evs, index) ==
    IF evs = <<>> THEN <<>>
    ELSE (IF IsInputJsonDelta(Head(evs)) /\ Head(evs).index = index
          THEN Head(evs).text ELSE <<>>) \o EmittedArguments(Tail(evs), index)

\* C27: for every tool call of the stream, the partial_json fragments emitted
\* at its index, and its argument buffer, are the argument fragments the
\* backend sent for its id since its block was started, with or without a
\* function name in the delta.
C27_ToolArgumentsArePassedOn ==
    \A k \in 1..Len(ss.current_tool_calls) :
        LET call == ss.current_tool_calls[k]
            sent == SentArguments(DeltasOf(ss.all_chunks), call.id, FALSE)
        IN  /\ EmittedArguments(events, call.index) = sent
            /\ call.args_buffer = sent

\* The block of call_1 was started and a later delta of call_1 without a
\* function name brought an argument fragment.
C27_Witness ==
    /\ Len(ss.current_tool_calls) >= 1
    /\ ss.current_tool_calls[1].id = "call_1"
    /\ LET last == ss.all_chunks[Len(ss.all_chunks)]
       IN  /\ last.tool_calls # <<>>
           /\ last.tool_calls[1].id = "call_1"
           /\ last.tool_calls[1].name = None
           /\ last.tool_calls[1].arguments # ""

\* The stream state the claim names: text, tool-call table, token counts and
\* stop reason.
NamedStreamState(s) ==
    <<s.accumulated_text, s.current_tool_calls, s.tool_block_counter,
      s.input_tokens, s.output_tokens, s.final_stop_reason>>

\* C28: a chunk as a mapping and the same chunk as an object with attributes
\* lead, from the same state, to the same events, the same stream state and
\* the same way out of the loop body.
C28_ChunkShapesAreEquivalent ==
    pc = "shaped" =>
        /\ result.attr.events = result.dict.events
        /\ NamedStreamState(result.attr.ss) = NamedStreamState(result.dict.ss)
        /\ result.attr.exit = result.dict.exit

\* A chunk with a tool-call delta was processed in both shapes.
C28_Witness ==
    /\ pc = "shaped"
    /\ arg.deltas # <<>>
    /\ arg.text # <<>>
    /\ Len(result.attr.ss.current_tool_calls) > Len(ss.current_tool_calls)

\* The chunk c, received in the stream state s, ends the stream: it is the
\* fragment "[DONE]", or a chunk with a finish_reason that the loop body
\* processes to its end, as an object, a mapping or a reassembled fragment.
EndsTheStream(s, c) ==
    \/ c.kind = "str" /\ Strip(c.str) = <<"[DONE]">>
    \/ /\ c.kind \in {"attr", "dict"}
       /\ c.has_choices /\ c.finish_reason \notin {None, ""}
       /\ ~BodyRaisesFor(c)
    \/ /\ c.kind = "str" /\ ~is_malformed_chunk(c.str)
       /\ LET tried == try_parse_buffered_chunk(s.chunk_buffer \o c.str)
          IN  /\ tried.found /\ tried.parsed.has_choices
              /\ tried.parsed.finish_reason \notin {None, ""}

\* The stop reasons of the message_delta events among evs.
ReportedStopReasons(evs) ==
    {evs[i].stop_reason : i \in {j \in 1..Len(evs) : evs[j].type = "message_delta"}}

\* A turn of the loop receives a chunk that ends the stream.
ReceivesEndingChunk ==
    /\ pc = "stream_loop"
    /\ Len(ss'.all_chunks) = Len(ss.all_chunks) + 1
    /\ EndsTheStream(ss, ss'.all_chunks[Len(ss'.all_chunks)])

\* A turn of the loop receives the fragment "[DONE]".
ReceivesDone ==
    /\ pc = "stream_loop"
    /\ Len(ss'.all_chunks) = Len(ss.all_chunks) + 1
    /\ ss'.all_chunks[Len(ss'.all_chunks)].kind = "str"
    /\ Strip(ss'.all_chunks[Len(ss'.all_chunks)].str) = <<"[DONE]">>

\* A step pulls no fragment and emits no content_block_delta.
NoPullNoDelta ==
    /\ gen'.pulls = gen.pulls
    /\ backend_calls' = backend_calls
    /\ ss'.all_chunks = ss.all_chunks
    /\ NumEvents(events', "content_block_delta") = NumEvents(events, "content_block_delta")

\* The handler leaves the loop with the stop reason end_turn and not
\* terminated early.
LeavesLoopWithEndTurn ==
    /\ pc' = "stream_final"
    /\ ss'.final_stop_reason = "end_turn"
    /\ ~ss'.stream_terminated_early

\* The final step of a stream that left the loop with end_turn reports, when
\* it sends a message_delta, end_turn.
FinalStepReportsEndTurn ==
    (pc = "stream_final" /\ ss.final_stop_reason = "end_turn" /\ ~ss.stream_terminated_early)
        => (ReportedStopReasons(events) = {} /\ ReportedStopReasons(events') \subseteq {"end_turn"})

\* C29: a chunk with a finish_reason that was processed, or the fragment
\* "[DONE]", takes the handler out of the loop; out of the loop it pulls no
\* fragment and emits no content_block_delta; and a stream that "[DONE]" or
\* the end of the backend's stream has ended reports the stop reason
\* end_turn in its message_delta.
C29_FinishEndsTheLoop ==
    /\ [][ReceivesEndingChunk => pc' = "stream_final"]_vars
    /\ [][(pc \in {"stream_final", "done"}) => NoPullNoDelta]_vars
    /\ [][(PullEnds \/ ReceivesDone) => LeavesLoopWithEndTurn]_vars
    /\ [][FinalStepReportsEndTurn]_vars

\* A stream that "[DONE]" ended after a text delta, with pulls to spare, has
\* reported end_turn.
C29_Witness ==
    /\ pc = "done"
    /\ response.kind = "stream"
    /\ gen.pulls < MaxPulls
    /\ Len(ss.all_chunks) = 2
    /\ ss.all_chunks[2] = StrChunk(<<"[DONE]">>)
    /\ NumEvents(events, "content_block_delta") = 1
    /\ ReportedStopReasons(events) = {"end_turn"}

\* The chunks among chunks that carry a usage snapshot the loop reads.
UsageSnapshots(chunks) ==
    SelectSeq(chunks, LAMBDA c : c.kind \in {"attr", "dict"} /\ c.has_usage)

\* The message_delta events among evs.
MessageDeltas(evs) == SelectSeq(evs, LAMBDA e : e.type = "message_delta")

\* C30: when a chunk of the stream carried a usage snapshot, the message_delta
\* of the stream reports as output_tokens the completion_tokens of the last
\* snapshot, whatever count stream_chunk_builder rebuilt.
C30_SnapshotOutputTokensAreReported ==
    (pc = "done" /\ response.kind = "stream" /\ UsageSnapshots(ss.all_chunks) # <<>>) =>
        LET snapshots == UsageSnapshots(ss.all_chunks)
            deltas == MessageDeltas(events)
        IN  \A i \in 1..Len(deltas) :
               deltas[i].output_tokens = snapshots[Len(snapshots)].completion_tokens

\* A stream with a usage snapshot has sent its message_delta with a count
\* other than the snapshot's.
C30_Witness ==
    /\ pc = "done"
    /\ response.kind = "stream"
    /\ UsageSnapshots(ss.all_chunks) # <<>>
    /\ ss.output_tokens = 5
    /\ MessageDeltas(events) # <<>>
    /\ MessageDeltas(events)[1].output_tokens = 7

\* The message_start events among evs.
MessageStarts(evs) == SelectSeq(evs, LAMBDA e : e.type = "message_start")

\* C31: the message_delta of a stream reports as input_tokens the
\* prompt_tokens of the last usage snapshot when a chunk carried one, and the
\* input_tokens of message_start otherwise.
C31_InputTokensAreKept ==
    (pc = "done" /\ response.kind = "stream") =>
        LET snapshots == UsageSnapshots(ss.all_chunks)
            deltas == MessageDeltas(events)
            announced == MessageStarts(events)[1].input_tokens
        IN  \A i \in 1..Len(deltas) :
               deltas[i].input_tokens =
                  IF snapshots # <<>> THEN snapshots[Len(snapshots)].prompt_tokens
                  ELSE announced

\* A stream without a usage snapshot has announced 12 input tokens and sent
\* its message_delta.
C31_Witness ==
    /\ pc = "done"
    /\ response.kind = "stream"
    /\ UsageSnapshots(ss.all_chunks) = <<>>
    /\ MessageStarts(events)[1].input_tokens = 12
    /\ MessageDeltas(events) # <<>>
    /\ MessageDeltas(events)[1].input_tokens = 0

\* C32: after every iteration of the stream loop the rolling chunk buffer
\* holds at most 10000 characters.
C32_ChunkBufferIsCapped ==
    pc \in {"stream_loop", "stream_final", "done"} =>
        StrLen(ss.chunk_buffer) <= ChunkBufferLimit

\* An iteration parsed a chunk out of the buffer and left more than 10000
\* characters in it.
C32_Witness ==
    /\ pc = "stream_loop"
    /\ ss.accumulated_text = <<"Hello">>
    /\ ss.chunk_buffer = <<ChunkHead, LongText, LongText>>
    /\ StrLen(ss.chunk_buffer) = 12033

\* C33: when the stream loop has ended without early termination, the rolling
\* buffer holds no complete chunk object that json.loads accepts.
C33_BufferedChunksAreProcessed ==
    (pc \in {"stream_final", "done"} /\ ~ss.stream_terminated_early) =>
        ~try_parse_buffered_chunk(ss.chunk_buffer).found

\* A stream ended by exhaustion after one fragment with two chunks: the
\* second chunk is still in the buffer and its text was never emitted.
C33_Witness ==
    /\ pc = "done"
    /\ ~ss.stream_terminated_early
    /\ Len(ss.all_chunks) = 1
    /\ ss.all_chunks[1] = StrChunk(<<ChunkHead, "Hello", ChunkTail, ChunkHead, "world", ChunkTail>>)
    /\ ss.accumulated_text = <<"Hello">>
    /\ ss.chunk_buffer = <<ChunkHead, "world", ChunkTail>>
    /\ NumEvents(events, "content_block_delta") = 1

\* A backend response, well formed but for its finish_reason, whose first
\* choice has tool calls and no finish_reason: the key or attribute is
\* missing, or its value is None.
HasToolCallsAndNoFinishReason(r) ==
    /\ r.style \in {"attr", "dict"}
    /\ r.n_choices = 1
    /\ r.message = "ok" /\ r.usage = "ok" /\ r.id = "chatcmpl-1"
    /\ r.content \in {"Hi", ""}
    /\ r.tool_calls.kind \in {"list", "single"} /\ r.tool_calls.items # <<>>
    /\ r.finish_reason \in {None, "missing"}

\* The same response in the other style.
InOtherStyle(r) == [r EXCEPT !.style = IF r.style = "attr" THEN "dict" ELSE "attr"]

\* C34: for a response whose first choice has tool calls and no finish_reason,
\* convert_litellm_to_anthropic returns stop_reason tool_use, and the same
\* stop_reason for the response in the other style.
C34_ToolCallsWithoutFinishReason ==
    (pc = "converted" /\ HasToolCallsAndNoFinishReason(arg)) =>
        /\ result.stop_reason = "tool_use"
        /\ convert_litellm_to_anthropic(InOtherStyle(arg), request).stop_reason
              = result.stop_reason

\* A mapping-style response with a tool call and no finish_reason key was
\* translated, and the stop reason is end_turn.
C34_Witness ==
    /\ pc = "converted"
    /\ HasToolCallsAndNoFinishReason(arg)
    /\ arg.style = "dict"
    /\ arg.finish_reason = "missing"
    /\ result.stop_reason = "end_turn"
    /\ \E i \in 1..Len(result.content) : result.content[i].type = "tool_use"

\* A backend response, well formed but for its tool calls, whose first choice
\* carries tool calls.
CarriesToolCalls(r) ==
    /\ r.style \in {"attr", "dict"}
    /\ r.n_choices = 1
    /\ r.message = "ok" /\ r.usage = "ok" /\ r.id = "chatcmpl-1"
    /\ r.content \in {"Hi", ""}
    /\ r.finish_reason \in {"stop", "tool_calls", None}
    /\ r.tool_calls.kind \in {"list", "single"}

\* A tool call with a non-empty function name.
IsNamedToolCall(tc) == tc.name \notin {"", None, "missing"}

\* The ToolUse block the claim names for a tool call: the call's id, or a
\* generated one, and the parsed arguments, or raw_arguments when the
\* arguments string is no JSON.
ClaimedToolUseBlock(tc) ==
    ToolUseBlock(IF tc.id \in {None, "missing"} THEN "generated" ELSE tc.id,
                 tc.name,
                 IF tc.arguments = "invalid" THEN "raw_arguments" ELSE "parsed")

ClaimedToolUseBlocks(items) ==
    LET named == SelectSeq(items, IsNamedToolCall)
    IN  [i \in 1..Len(named) |-> ClaimedToolUseBlock(named[i])]

\* C35: the content convert_litellm_to_anthropic returns is the Text block, if
\* the response has text, followed by one ToolUse block for every tool call
\* with a non-empty function name, in backend order, with the call's or a
\* generated id and the parsed or the raw arguments, or the one empty Text
\* block when there is neither.
C35_ToolCallsBecomeToolUseBlocks ==
    (pc = "converted" /\ CarriesToolCalls(arg)) =>
        LET text == IF arg.content # "" THEN <<TextBlock(arg.content)>> ELSE <<>>
            blocks == text \o ClaimedToolUseBlocks(arg.tool_calls.items)
        IN  result.content = IF blocks = <<>> THEN <<TextBlock("")>> ELSE blocks

\* A response whose named tool call has arguments that are JSON but no object
\* was translated without a ToolUse block.
C35_Witness ==
    /\ pc = "converted"
    /\ CarriesToolCalls(arg)
    /\ arg.content = "Hi"
    /\ Len(arg.tool_calls.items) = 1
    /\ IsNamedToolCall(arg.tool_calls.items[1])
    /\ arg.tool_calls.items[1].arguments = "array"
    /\ result.content = <<TextBlock("Hi")>>

\* The roles of the backend messages the claim names for the blocks of a user
\* message, in source order: at a ToolResult block a user message for the
\* text and images since the last one, if any, and directly after it the
\* tool message; at the end a user message for what is left.
RECURSIVE ClaimedRoles(_, _)
ClaimedRoles(blocks, has_content) ==
    IF blocks = <<>> THEN (IF has_content THEN <<"user">> ELSE <<>>)
    ELSE LET block == Head(blocks)
         IN  IF block.type = "tool_result"
             THEN (IF has_content THEN <<"user">> ELSE <<>>) \o <<"tool">>
                  \o ClaimedRoles(Tail(blocks), FALSE)
             ELSE ClaimedRoles(Tail(blocks),
                     \/ has_content
                     \/ block.type = "text"
                     \/ block.type = "image" /\ ImageSourceIsBase64(block.source))

\* The tool messages of the ToolResult blocks among blocks, in their order.
ToolMessagesOf(blocks) ==
    LET results == SelectSeq(blocks, LAMBDA b : b.type = "tool_result")
    IN  [i \in 1..Len(results) |->
            ToolMessage(results[i].tool_use_id, parse_tool_result_content(results[i].content))]

\* C36: the backend messages of a user message with content blocks keep source
\* order: the tool message of each ToolResult block stands directly after the
\* user message for the content before the block and before every message for
\* content after it, and the tool messages are those of the ToolResult blocks,
\* one per block in their order.
C36_ToolMessagesKeepSourceOrder ==
    (pc = "translated" /\ arg.role = "user" /\ arg.kind = "blocks") =>
        /\ [i \in 1..Len(result) |-> result[i].role] = ClaimedRoles(arg.blocks, FALSE)
        /\ SelectSeq(result, LAMBDA m : m.role = "tool") = ToolMessagesOf(arg.blocks)

\* A user message of text, a ToolResult block and more text was translated:
\* both user messages stand before the tool message.
C36_Witness ==
    /\ pc = "translated"
    /\ arg.role = "user" /\ arg.kind = "blocks"
    /\ Len(arg.blocks) = 3
    /\ arg.blocks[1].type = "text"
    /\ arg.blocks[2].type = "tool_result"
    /\ arg.blocks[3].type = "text"
    /\ [i \in 1..Len(result) |-> result[i].role] = <<"user", "user", "tool">>

\* The content of a backend message is None, the empty string or an empty list.
IsEmptyContent(content) ==
    \/ content.kind = "none"
    \/ content.kind = "str" /\ content.text = <<>>
    \/ content.kind = "parts" /\ content.parts = <<>>

\* C37: every assistant message of the translated request has non-empty
\* content or at least one tool call, so that a source message with neither
\* yields no backend message, and its content is None only with tool calls.
C37_AssistantMessagesAreNotEmpty ==
    pc = "translated" =>
        \A i \in 1..Len(result) :
            result[i].role = "assistant" =>
                ~IsEmptyContent(result[i].content) \/ result[i].tool_calls # <<>>

\* An assistant message whose content is the empty string was translated to a
\* backend message with empty content and no tool call.
C37_Witness ==
    /\ pc = "translated"
    /\ arg = Message("assistant", "str", <<>>, <<>>)
    /\ result = <<LitellmMessage("assistant", StrContent(<<>>))>>

\* The content blocks hold a ToolUse block.
HasToolUseBlock(content) == \E i \in 1..Len(content) : content[i].type = "tool_use"

\* C38: in every response convert_litellm_to_anthropic returns, stop_reason is
\* tool_use if and only if the content holds a ToolUse block.
C38_ToolUseIffToolUseBlock ==
    pc = "converted" => (result.stop_reason = "tool_use" <=> HasToolUseBlock(result.content))

\* A well-formed response with a tool call and finish_reason stop was
\* translated: the content holds the ToolUse block, stop_reason is end_turn.
C38_Witness ==
    /\ pc = "converted"
    /\ CarriesToolCalls(arg)
    /\ arg.finish_reason = "stop"
    /\ HasToolUseBlock(result.content)
    /\ result.stop_reason = "end_turn"

\* The calls of restart_server among calls[1..n] that passed the check, in the
\* restart_window seconds up to the time t.
AttemptsInWindow(calls, n, t) ==
    Cardinality({j \in 1..n : calls[j].ops # <<>> /\ calls[j].time > t - restart_window})

\* C39: at no time are more than max_restarts restart attempts within the
\* last restart_window seconds (a time exactly restart_window seconds back is
\* outside the window); a call of restart_server that finds
\* max_restarts attempts in the window does nothing to any process and records
\* nothing, and a call that passes the check records the attempt before its
\* first process call.
C39_RestartsAreRateLimited ==
    LET calls == restarter.calls
    IN  \A i \in 1..Len(calls) :
           /\ AttemptsInWindow(calls, i, calls[i].time) <= max_restarts
           /\ AttemptsInWindow(calls, i - 1, calls[i].time) >= max_restarts
                 => calls[i].ops = <<>>
           /\ calls[i].ops # <<>> =>
                 /\ calls[i].ops[1] = "record_restart"
                 /\ Len(calls[i].ops) > 1
                 /\ restarter.restart_times # <<>>
           /\ Len(restarter.restart_times) <= max_restarts

\* Five attempts were made at once, a sixth call was refused 100 seconds later
\* and a seventh passed when the window was over.
C39_Witness ==
    /\ Len(restarter.calls) = 7
    /\ \A i \in 1..5 : restarter.calls[i].time = 0 /\ restarter.calls[i].ops # <<>>
    /\ restarter.calls[6].time = 100 /\ restarter.calls[6].ops = <<>>
    /\ restarter.calls[7].time = 300 /\ restarter.calls[7].ops # <<>>
    /\ restarter.restart_times = <<300>>

\* A step is a cycle of the monitor loop that has a health result.
CycleWithResult ==
    /\ monitor'.cycles = monitor.cycles + 1
    /\ monitor'.last.overall_status # None

\* The step calls restart_server; the call succeeds when it ends with the new
\* PID written.
RestartAttempted == Len(restarter'.calls) = Len(restarter.calls) + 1

RestartSucceeded ==
    /\ RestartAttempted
    /\ LET ops == restarter'.calls[Len(restarter'.calls)].ops
       IN  ops # <<>> /\ ops[Len(ops)] = "write_pid_file"

\* What the claim says of a cycle: when it attempts a restart, and what
\* becomes of consecutive_failures.
CycleAsClaimed ==
    LET status == monitor'.last.overall_status
        check == monitor'.last.check
    IN  /\ RestartAttempted <=>
              /\ monitor.auto_restart_enabled
              /\ status # "healthy"
              /\ monitor.consecutive_failures + 1 >= monitor.max_failures
        /\ monitor'.consecutive_failures =
              IF status = "healthy" \/ RestartSucceeded THEN 0
              ELSE monitor.consecutive_failures + 1
        /\ (monitor.last.restart = "failed" /\ status # "healthy") => RestartAttempted
        /\ ((check.pid = "none" \/ check.alive) /\ check.endpoint = "healthy"
               /\ check.connection # "healthy")
              => /\ status = "degraded"
                 /\ \/ monitor'.consecutive_failures = monitor.consecutive_failures + 1
                    \/ RestartSucceeded

\* C40: a cycle of monitor_loop attempts a restart if and only if auto-restart
\* is enabled, the cycle's health result is not healthy and
\* consecutive_failures has reached max_failures; the counter becomes 0 by a
\* healthy result or a successful restart and grows by one otherwise; after a
\* failed restart the next cycle that is not healthy attempts a restart again;
\* a cycle in which only the test connection fails is degraded and counts as
\* a failure.  A step that is no cycle with a health result leaves the
\* counter and the restarter alone.
C40_RestartWhenThresholdReached ==
    /\ [][CycleWithResult => CycleAsClaimed]_vars
    /\ [][~CycleWithResult =>
            /\ monitor'.consecutive_failures = monitor.consecutive_failures
            /\ restarter' = restarter]_vars

\* A degraded cycle attempted a restart right after a cycle whose restart had
\* failed, and its restart failed too: the counter is past max_failures.
C40_Witness ==
    /\ monitor.running
    /\ monitor.max_failures = 3
    /\ monitor.last.overall_status = "degraded"
    /\ monitor.last.restart = "failed"
    /\ Len(restarter.calls) = 2
    /\ restarter.calls[1].time + check_interval = restarter.calls[2].time
    /\ monitor.consecutive_failures = 4

====
